---- MODULE Spec2Model ----
(***************************************************************************)
(* Gap analysis of the puzzle-book niche finder (analysis/gap_finder.py):  *)
(* co-occurrence matrices over tagged suggestions, gap scoring, modifier   *)
(* gaps and cross-type opportunities.                                      *)
(*                                                                         *)
(* Scores are kept in tenths (score 16.4 is 164) and fill rates in         *)
(* hundredths (0.5 is 50), so that every value is an integer.              *)
(***************************************************************************)
EXTENDS Integers, Sequences, FiniteSets, TLC

VARIABLES
    pc,              \* position of the analysis run
    categorized,     \* the list of categorized items
    call,            \* arguments of the last _build_matrix call
    matrix,          \* the DataFrame handed to / returned by the last call
    min_row_total,   \* thresholds of the _find_gaps call
    min_col_total,
    gaps,            \* list returned by _find_gaps
    modifier_gaps,   \* dict returned by _find_modifier_gaps
    opportunities,   \* list returned by _find_cross_type_opportunities
    previous,        \* the matrix and the result of the _find_gaps call before the last
    results,         \* dict returned by find_gaps
    output_dir,      \* files written by find_gaps: name -> content
    rate_limiter,    \* the RateLimiter object and the calls made on it
    scrape,          \* arguments and local variables of scrape_autocomplete
    endpoint,        \* answer of the suggestion endpoint to each query
    progress_file,   \* content of the progress file
    output_file,     \* content of the raw suggestions file
    requests,        \* queries sent to the endpoint by the current run
    runs,            \* number of runs of scrape_autocomplete so far
    fetch            \* the last direct call of _fetch_suggestions

find_gaps_vars == <<results, output_dir>>

scraper_vars == <<rate_limiter, scrape, endpoint, progress_file, output_file, requests, runs,
                  fetch>>

analysis_vars == <<pc, categorized, call, matrix, min_row_total, min_col_total,
                   gaps, modifier_gaps, opportunities, previous, find_gaps_vars>>

vars == <<analysis_vars, scraper_vars>>

----------------------------------------------------------------------------
(* Bounds of the model *)

MaxItems == 2
MaxFreq == 2
MaxCell == 2
MaxThreshold == 3
MaxFileItems == 12
MaxFileFreq == 3
MaxSeed == 3
MaxCalls == 6
MaxRuns == 2
MaxDepth == 2

----------------------------------------------------------------------------
(* Vocabularies (seeds/seed_generator.py) *)

PUZZLE_TYPES ==
    << "word search", "crossword", "sudoku", "maze", "activity book",
       "puzzle book", "word find", "brain teaser", "trivia",
       "dot to dot", "word scramble", "cryptogram", "number search",
       "logic puzzle", "hidden word", "riddle book",
       "acrostic", "kakuro", "kenken", "nonogram", "picture puzzle",
       "rebus puzzle" >>

AUDIENCES ==
    << "kids", "adults", "seniors", "teens", "women", "men", "boys", "girls",
       "toddlers", "elderly", "beginners", "experts", "students", "teachers",
       "couples", "families" >>

THEMES ==
    << "animals", "sports", "bible", "travel", "food", "nature", "science",
       "history", "music", "movies", "holidays", "christmas", "halloween",
       "easter", "space", "ocean", "dinosaurs", "dogs", "cats", "horses",
       "cars", "military", "nursing", "gardening", "cooking", "fishing",
       "camping", "yoga", "disney", "harry potter", "spanish", "french",
       "german", "japanese", "math", "geography", "usa", "football",
       "baseball", "basketball", "soccer", "golf", "horror", "mystery",
       "fantasy", "flowers", "birds", "farm", "beach", "winter", "summer",
       "spring", "fall autumn", "birthday", "wedding", "baby shower",
       "retirement", "teacher appreciation" >>

key_modifiers == << "large print", "easy", "hard", "giant", "relaxing" >>

\* The literal tuple both loops of _build_matrix test a tag against.
Sentinels == {"unknown", "general", "none"}

----------------------------------------------------------------------------
(* Generic helpers on lists *)

Range(s) == {s[i] : i \in DOMAIN s}

\* Python's `x in list`
Contains(s, x) == \E i \in DOMAIN s : s[i] = x

\* Number of positions of s holding x (a for-loop over s visits each of them)
Occurrences(s, x) == Cardinality({i \in DOMAIN s : s[i] = x})

RECURSIVE SumSeq(_)
SumSeq(s) == IF s = <<>> THEN 0 ELSE Head(s) + SumSeq(Tail(s))

\* dict.get(key, default) on an item
ItemGet(item, field, default) ==
    IF field \in DOMAIN item THEN item[field] ELSE default

----------------------------------------------------------------------------
(* _build_matrix *)

\* ItemCount adding 1 per matching suggestion instead of its frequency
ItemCountUnit(item, row_field, col_field, r, c) ==
    LET rows == ItemGet(item, row_field, <<>>)
        cols == ItemGet(item, col_field, <<>>)
    IN  IF r \in Sentinels \/ c \in Sentinels THEN 0
        ELSE Occurrences(rows, r) * Occurrences(cols, c)

\* What one item adds to counts[r][c]: the two nested loops run once per
\* position of r in rows and of c in cols, skipping the sentinel values.
ItemCount(item, row_field, col_field, r, c) ==
    LET rows == ItemGet(item, row_field, <<>>)
        cols == ItemGet(item, col_field, <<>>)
        freq == ItemGet(item, "frequency", 1)
    IN  IF r \in Sentinels \/ c \in Sentinels THEN 0
        ELSE freq * Occurrences(rows, r) * Occurrences(cols, c)

\* The keys (r, c) the defaultdict holds after the loop over the items.
CountKeys(items, row_field, col_field) ==
    UNION { { <<r, c>> : r \in Range(ItemGet(items[i], row_field, <<>>)) \ Sentinels,
                         c \in Range(ItemGet(items[i], col_field, <<>>)) \ Sentinels }
            : i \in DOMAIN items }

\* counts[r][c] assigned by each item instead of added to: the last item
\* that is tagged (r, c) leaves its count
CountsAssigned(items, row_field, col_field, r, c) ==
    LET tagged == { i \in DOMAIN items : ItemCount(items[i], row_field, col_field, r, c) # 0 }
    IN  IF tagged = {} THEN 0
        ELSE ItemCount(items[CHOOSE i \in tagged : \A j \in tagged : j <= i],
                       row_field, col_field, r, c)

\* counts[r][c] after the loop over the items.
Counts(items, row_field, col_field, r, c) ==
    SumSeq([i \in DOMAIN items |-> ItemCount(items[i], row_field, col_field, r, c)])

\* pd.DataFrame(0, index=row_values, columns=col_values): a DataFrame is its
\* index, its columns and its cells.
ZeroFrame(row_values, col_values) ==
    [index |-> row_values, columns |-> col_values,
     at |-> [rc \in Range(row_values) \X Range(col_values) |-> 0]]

\* _build_matrix keeping only the rows and columns that hold a count
_build_matrix_seen(items, row_field, col_field, row_values, col_values) ==
    LET keys == CountKeys(items, row_field, col_field)
        row_seen(r) == \E rc \in keys : rc[1] = r
        col_seen(c) == \E rc \in keys : rc[2] = c
        df == ZeroFrame(SelectSeq(row_values, row_seen), SelectSeq(col_values, col_seen))
    IN  [df EXCEPT !.at = [rc \in DOMAIN df.at |->
                              IF rc \in keys
                              THEN Counts(items, row_field, col_field, rc[1], rc[2])
                              ELSE df.at[rc]]]

\* _build_matrix that does not skip the sentinel values
_build_matrix_sentinels(items, row_field, col_field, row_values, col_values) ==
    LET df == ZeroFrame(row_values, col_values)
        tags(item, field) == ItemGet(item, field, <<>>)
        added(item, rc) ==
            ItemGet(item, "frequency", 1) * Occurrences(tags(item, row_field), rc[1])
                                          * Occurrences(tags(item, col_field), rc[2])
    IN  [df EXCEPT !.at = [rc \in DOMAIN df.at |->
                              SumSeq([i \in DOMAIN items |-> added(items[i], rc)])]]

_build_matrix(items, row_field, col_field, row_values, col_values) ==
    LET keys == CountKeys(items, row_field, col_field)
        df == ZeroFrame(row_values, col_values)
    IN  [df EXCEPT !.at = [rc \in DOMAIN df.at |->
                              IF rc \in keys
                              THEN Counts(items, row_field, col_field, rc[1], rc[2])
                              ELSE df.at[rc]]]

----------------------------------------------------------------------------
(* Arithmetic of the score: math.sqrt, the float division and round()     *)
(* computed exactly on integers.  For the magnitudes of this model the     *)
(* double-precision result rounds to the same decimal as the exact value.  *)

\* floor(sqrt(n)) by bisection on [lo, hi], lo * lo <= n < (hi + 1) * (hi + 1)
RECURSIVE ISqrtIn(_, _, _)
ISqrtIn(n, lo, hi) ==
    IF lo = hi THEN lo
    ELSE LET mid == (lo + hi + 1) \div 2
         IN  IF mid * mid <= n THEN ISqrtIn(n, mid, hi) ELSE ISqrtIn(n, lo, mid - 1)

ISqrt(n) == ISqrtIn(n, 0, 46340)

\* The integer nearest to sqrt(q) / (2 * n), an exact half going to the even
\* neighbour as round() does.
RoundSqrtOver(q, n) ==
    LET s == ISqrt(q)
        m == (s + n) \div (2 * n)
        tie == s * s = q /\ (s + n) % (2 * n) = 0
    IN  IF tie /\ m % 2 = 1 THEN m - 1 ELSE m

\* fill_rate = fill_count / total_rows if total_rows > 0 else 0, as the pair
\* (numerator, denominator)
FillRate(fill_count, total_rows) ==
    IF total_rows > 0 THEN <<fill_count, total_rows>> ELSE <<0, 1>>

\* The additive score the module docstring calls the old one, in tenths
ScoreSum(rt, ct, fill_count, total_rows) == 10 * (rt + ct)

\* The score with the bonus taken from the rows that lack the column
ScoreOfEmptyRows(rt, ct, fill_count, total_rows) ==
    LET fr == FillRate(total_rows - fill_count, total_rows)
    IN  RoundSqrtOver(400 * rt * ct * (fr[2] + fr[1]) * (fr[2] + fr[1]), fr[2])

\* round(math.sqrt(rt * ct) * (1.0 + fill_rate), 1), in tenths:
\* 10 * sqrt(rt * ct) * (d + f) / d  =  sqrt(400 * rt * ct * (d + f)^2) / (2 * d)
Score(rt, ct, fill_count, total_rows) ==
    LET fr == FillRate(fill_count, total_rows)
        f == fr[1]
        d == fr[2]
    IN  RoundSqrtOver(400 * rt * ct * (d + f) * (d + f), d)

\* round(fill_rate, 2), in hundredths
RoundedFillRate(fill_count, total_rows) ==
    LET fr == FillRate(fill_count, total_rows)
        m == (200 * fr[1] + fr[2]) \div (2 * fr[2])
        tie == (200 * fr[1] + fr[2]) % (2 * fr[2]) = 0
    IN  IF tie /\ m % 2 = 1 THEN m - 1 ELSE m

----------------------------------------------------------------------------
(* _find_gaps *)

\* matrix.sum(axis=1), matrix.sum(axis=0), (matrix > 0).sum(axis=0)
RowTotal(m, row) == SumSeq([j \in DOMAIN m.columns |-> m.at[<<row, m.columns[j]>>]])
ColTotal(m, col) == SumSeq([i \in DOMAIN m.index |-> m.at[<<m.index[i], col>>]])
\* The sum of the column in place of the number of its non-zero rows
ColFillCountTotal(m, col) == ColTotal(m, col)

ColFillCount(m, col) ==
    SumSeq([i \in DOMAIN m.index |-> IF m.at[<<m.index[i], col>>] > 0 THEN 1 ELSE 0])

\* The tiers tested in the order medium, high, low
ConfidenceMediumFirst(rt, ct, fill_count) ==
    IF rt >= 20 /\ ct >= 10 /\ fill_count >= 3 THEN "medium"
    ELSE IF rt >= 50 /\ ct >= 20 /\ fill_count >= 5 THEN "high"
    ELSE "low"

Confidence(rt, ct, fill_count) ==
    IF rt >= 50 /\ ct >= 20 /\ fill_count >= 5 THEN "high"
    ELSE IF rt >= 20 /\ ct >= 10 /\ fill_count >= 3 THEN "medium"
    ELSE "low"

\* The list s with each of its elements computed once
List(s) == SubSeq(s, 1, Len(s))

\* row_totals, col_totals and col_fill_counts, computed once per call; each
\* is kept in the order of the index or of the columns
Totals(m) ==
    [row_totals |-> List([i \in DOMAIN m.index |-> RowTotal(m, m.index[i])]),
     col_totals |-> List([j \in DOMAIN m.columns |-> ColTotal(m, m.columns[j])]),
     col_fill_counts |-> List([j \in DOMAIN m.columns |-> ColFillCount(m, m.columns[j])])]

\* The dict appended for the cell at row i of the index and column j
Gap(m, totals, i, j) ==
    LET rt == totals.row_totals[i]
        ct == totals.col_totals[j]
        fill_count == totals.col_fill_counts[j]
        total_rows == Len(m.index)
    IN  [row |-> m.index[i], column |-> m.columns[j],
         score |-> Score(rt, ct, fill_count, total_rows),
         row_total |-> rt, col_total |-> ct,
         col_fill_count |-> fill_count,
         col_fill_rate |-> RoundedFillRate(fill_count, total_rows),
         confidence |-> Confidence(rt, ct, fill_count)]

\* The scan without the test of the column total
IsGapCellAnyColumn(m, totals, a, b, i, j) ==
    /\ ~(totals.row_totals[i] < a)
    /\ ~(m.at[<<m.index[i], m.columns[j]>>] # 0)

\* The three `continue` tests of the scan: the cell is appended when none fires.
IsGapCell(m, totals, a, b, i, j) ==
    /\ ~(totals.row_totals[i] < a)
    /\ ~(m.at[<<m.index[i], m.columns[j]>>] # 0)
    /\ ~(totals.col_totals[j] < b)

\* A scan that stops before the last cell
ScanOrderShort(m) ==
    LET nc == Len(m.columns)
    IN  [k \in 1..(Len(m.index) * nc - 1) |-> <<((k - 1) \div nc) + 1, ((k - 1) % nc) + 1>>]

\* The cells, as (position in the index, position in the columns), in the
\* order of the two nested loops: index, then columns.
ScanOrder(m) ==
    LET nc == Len(m.columns)
    IN  [k \in 1..(Len(m.index) * nc) |-> <<((k - 1) \div nc) + 1, ((k - 1) % nc) + 1>>]

\* list.sort(key=lambda x: x[field], reverse=True) on a list of dicts:
\* descending by the field, equal keys in their original order.  The element
\* at position i moves behind those of a larger key and those of an equal key
\* that stood before it.
SortDesc(s, field) ==
    LET list == SubSeq(s, 1, Len(s))
        behind(i) == Cardinality({ j \in DOMAIN list :
                                     \/ list[j][field] > list[i][field]
                                     \/ list[j][field] = list[i][field] /\ j < i })
        rank == SubSeq([i \in DOMAIN list |-> behind(i) + 1], 1, Len(list))
    IN  [k \in DOMAIN list |-> list[CHOOSE i \in DOMAIN list : rank[i] = k]]

\* The cells of the scan that reach gaps.append, in the order of the scan
GapCells(m, totals, a, b) ==
    LET appended(cell) == IsGapCell(m, totals, a, b, cell[1], cell[2])
    IN  SelectSeq(ScanOrder(m), appended)

\* The gaps list before gaps.sort
ScannedGaps(m, a, b) ==
    LET totals == Totals(m)
        cells == GapCells(m, totals, a, b)
    IN  [k \in DOMAIN cells |-> Gap(m, totals, cells[k][1], cells[k][2])]

\* _find_gaps sorting without reverse=True
RECURSIVE Reversed(_)
Reversed(s) == IF s = <<>> THEN <<>> ELSE Reversed(Tail(s)) \o <<Head(s)>>

_find_gaps_ascending(m, a, b) == Reversed(SortDesc(Reversed(ScannedGaps(m, a, b)), "score"))

_find_gaps(m, a, b) == SortDesc(ScannedGaps(m, a, b), "score")

----------------------------------------------------------------------------
(* _find_modifier_gaps *)

\* mods[v] after the loop over the items: the modifiers other than "none" of
\* the items whose `field` list holds v.  The loop skips v = skip; a key v
\* exists only when the set is not empty.
ObservedModifiers(items, field, skip, v) ==
    IF v = skip THEN {}
    ELSE UNION { Range(ItemGet(items[i], "modifiers", <<>>)) \ {"none"}
                 : i \in {j \in DOMAIN items : Contains(ItemGet(items[j], field, <<>>), v)} }

\* [m for m in key_modifiers if m not in existing], from position k on
RECURSIVE MissingFrom(_, _)
MissingFrom(existing, k) ==
    IF k > Len(key_modifiers) THEN <<>>
    ELSE IF key_modifiers[k] \notin existing
         THEN <<key_modifiers[k]>> \o MissingFrom(existing, k + 1)
         ELSE MissingFrom(existing, k + 1)

\* The loop over a vocabulary without the test `if missing:`
RECURSIVE ModifierGapsFromAll(_, _, _, _, _)
ModifierGapsFromAll(items, field, skip, vocabulary, k) ==
    IF k > Len(vocabulary) THEN <<>>
    ELSE LET missing == MissingFrom(ObservedModifiers(items, field, skip, vocabulary[k]), 1)
         IN  << <<vocabulary[k], missing>> >>
                 \o ModifierGapsFromAll(items, field, skip, vocabulary, k + 1)

\* The dict filled by the loop over a vocabulary, as the list of its
\* (key, value) pairs in insertion order, from position k of the vocabulary on
RECURSIVE ModifierGapsFrom(_, _, _, _, _)
ModifierGapsFrom(items, field, skip, vocabulary, k) ==
    IF k > Len(vocabulary) THEN <<>>
    ELSE LET missing == MissingFrom(ObservedModifiers(items, field, skip, vocabulary[k]), 1)
             rest == ModifierGapsFrom(items, field, skip, vocabulary, k + 1)
         IN  IF missing # <<>> THEN << <<vocabulary[k], missing>> >> \o rest ELSE rest

_find_modifier_gaps(items) ==
    [puzzle_type_modifier_gaps |->
         ModifierGapsFrom(items, "puzzle_types", "unknown", PUZZLE_TYPES, 1),
     audience_modifier_gaps |->
         ModifierGapsFrom(items, "audiences", "general", AUDIENCES, 1)]

\* `key in d` and d[key] on a dict kept as a list of pairs
DictHas(d, key) == \E i \in DOMAIN d : d[i][1] = key
DictGet(d, key) == d[CHOOSE i \in DOMAIN d : d[i][1] = key][2]

----------------------------------------------------------------------------
(* _find_cross_type_opportunities *)

\* type_themes after the loop over the items: a key exists once a theme other
\* than "none" was added under a puzzle type other than "unknown".
TypeThemesOf(items, pt) ==
    IF pt = "unknown" THEN {}
    ELSE UNION { Range(ItemGet(items[i], "themes", <<>>)) \ {"none"}
                 : i \in {j \in DOMAIN items :
                             Contains(ItemGet(items[j], "puzzle_types", <<>>), pt)} }

TypeThemes(items) ==
    LET tagged == UNION { Range(ItemGet(items[i], "puzzle_types", <<>>)) : i \in DOMAIN items }
        keys == { pt \in tagged : TypeThemesOf(items, pt) # {} }
    IN  [pt \in keys |-> TypeThemesOf(items, pt)]

\* type_themes.get(pt, set())
ThemesGet(type_themes, pt) ==
    IF pt \in DOMAIN type_themes THEN type_themes[pt] ELSE {}

AllThemesSeen(type_themes) == UNION { type_themes[pt] : pt \in DOMAIN type_themes }

\* sum(1 for other_pt, themes in type_themes.items() if other_pt != pt and theme in themes)
OtherCount(type_themes, pt, theme) ==
    Cardinality({ other_pt \in DOMAIN type_themes :
                    other_pt # pt /\ theme \in type_themes[other_pt] })

\* The orders in which `for theme in all_themes_seen` can enumerate the set:
\* the order of a set of strings is not fixed by the language.
Enumerations(S) ==
    { e \in [1..Cardinality(S) -> S] : \A i, j \in DOMAIN e : i # j => e[i] # e[j] }

\* The order in which a process enumerates a set of themes follows the hashes
\* of the strings, which change with the hash seed of the process.  The key
\* of a theme under a seed stands for its hash.
ThemeKey(theme, seed) ==
    ((19 * seed - 18) * (CHOOSE i \in DOMAIN THEMES : THEMES[i] = theme)) % 59

RECURSIVE EnumerationOfSeed(_, _)
EnumerationOfSeed(S, seed) ==
    IF S = {} THEN <<>>
    ELSE LET first == CHOOSE x \in S :
                          \A y \in S : ThemeKey(x, seed) <= ThemeKey(y, seed)
         IN  <<first>> \o EnumerationOfSeed(S \ {first}, seed)

SeededEnumerations(S) == { EnumerationOfSeed(S, seed) : seed \in 1..MaxSeed }

\* The two tests accepting a theme that one other type has
IsOpportunityOne(type_themes, pt, theme) ==
    /\ theme \notin ThemesGet(type_themes, pt)
    /\ OtherCount(type_themes, pt, theme) >= 1

\* The two tests without `theme not in existing`
IsOpportunityExisting(type_themes, pt, theme) ==
    OtherCount(type_themes, pt, theme) >= 2

\* The two tests an opportunity passes before it is appended
IsOpportunity(type_themes, pt, theme) ==
    /\ theme \notin ThemesGet(type_themes, pt)
    /\ OtherCount(type_themes, pt, theme) >= 2

\* The pairs (pt, theme) in the order of the two nested loops: PUZZLE_TYPES,
\* then the themes in the order of this enumeration of all_themes_seen
LoopOrder(theme_order) ==
    LET n == Len(theme_order)
    IN  [k \in 1..(Len(PUZZLE_TYPES) * n) |->
            <<PUZZLE_TYPES[((k - 1) \div n) + 1], theme_order[((k - 1) % n) + 1]>>]

\* The opportunities list before opportunities.sort
OpportunitiesFrom(type_themes, theme_order) ==
    LET appended(pair) == IsOpportunity(type_themes, pair[1], pair[2])
        pairs == SelectSeq(LoopOrder(theme_order), appended)
    IN  [k \in DOMAIN pairs |->
            [puzzle_type |-> pairs[k][1], theme |-> pairs[k][2],
             other_types_with_theme |-> OtherCount(type_themes, pairs[k][1], pairs[k][2])]]

\* _find_cross_type_opportunities without its final sort
_find_cross_type_opportunities_unsorted(items, theme_order) ==
    OpportunitiesFrom(TypeThemes(items), theme_order)

\* theme_order is the order in which this run enumerates all_themes_seen
_find_cross_type_opportunities(items, theme_order) ==
    SortDesc(OpportunitiesFrom(TypeThemes(items), theme_order),
             "other_types_with_theme")

----------------------------------------------------------------------------
(* scraper/rate_limiter.py: RateLimiter *)

\* RateLimiter(): the defaults of __init__, delays in seconds
min_delay == 1
max_delay == 3
max_backoff == 60
backoff_factor == 2

\* The object after __init__; calls is the list of the methods called on it
NewRateLimiter == [_consecutive_failures |-> 0, calls |-> <<>>, delay |-> [low |-> 0, high |-> 0]]

RECURSIVE Power(_, _)
Power(b, n) == IF n = 0 THEN 1 ELSE b * Power(b, n - 1)

\* The bounds of the delay wait() sleeps for: random.uniform adds at most
\* one second to the backoff, or draws between min_delay and max_delay
WaitDelay(failures) ==
    IF failures > 0
    THEN LET raised == min_delay * Power(backoff_factor, failures)
             backoff == IF raised < max_backoff THEN raised ELSE max_backoff
         IN  [low |-> backoff, high |-> backoff + 1]
    ELSE [low |-> min_delay, high |-> max_delay]

wait(rl) ==
    [rl EXCEPT !.calls = Append(@, "wait"), !.delay = WaitDelay(rl._consecutive_failures)]

\* record_success that leaves the counter as it is
record_success_kept(rl) ==
    [rl EXCEPT !.calls = Append(@, "record_success")]

record_success(rl) ==
    [rl EXCEPT !._consecutive_failures = 0, !.calls = Append(@, "record_success")]

record_failure(rl) ==
    [rl EXCEPT !._consecutive_failures = @ + 1, !.calls = Append(@, "record_failure")]

\* progress_path before any run wrote it
NoFile == [exists |-> FALSE, completed_queries |-> <<>>, results |-> <<>>]

\* scrape_autocomplete before it is called with these arguments; found is the
\* progress file as the call finds it
NotStarted(seed_queries, max_depth, max_failures) ==
    [ seed_queries |-> seed_queries, max_depth |-> max_depth, max_failures |-> max_failures,
      completed |-> {},
      progress  |-> [completed_queries |-> <<>>, results |-> <<>>],
      found     |-> NoFile,
      queue |-> <<>>, processed |-> 0,
      at |-> "idle", outcome |-> "none", returned |-> <<>> ]

\* An endpoint that answers every query with no suggestion
Silent == [answers |-> <<>>, default |-> [ok |-> TRUE, suggestions |-> <<>>, error |-> "none"]]

\* No call of _fetch_suggestions was made
NotFetched == [query |-> "", before |-> 0, response |-> Silent.default,
               suggestions |-> <<>>, raised |-> FALSE]

\* No scrape has run: no files, no object
NoScrape ==
    /\ rate_limiter = NewRateLimiter
    /\ scrape = NotStarted(<<>>, 0, 0)
    /\ endpoint = Silent
    /\ progress_file = NoFile
    /\ output_file = [exists |-> FALSE, results |-> <<>>]
    /\ requests = <<>>
    /\ runs = 0
    /\ fetch = NotFetched

\* A RateLimiter used on its own, as the tests of the class do
InitRateLimiter ==
    /\ pc = "rate_limiter"
    /\ categorized = <<>>
    /\ call = [row_field |-> "", col_field |-> "", row_values |-> <<>>, col_values |-> <<>>]
    /\ matrix = <<>>
    /\ min_row_total = 3
    /\ min_col_total = 3
    /\ gaps = <<>>
    /\ modifier_gaps = <<>>
    /\ opportunities = <<>>
    /\ previous = <<>>
    /\ results = <<>>
    /\ output_dir = <<>>
    /\ NoScrape

Wait ==
    /\ pc = "rate_limiter"
    /\ Len(rate_limiter.calls) < MaxCalls
    /\ rate_limiter' = wait(rate_limiter)
    /\ UNCHANGED <<analysis_vars, scrape, endpoint, progress_file, output_file, requests, runs,
                   fetch>>

RecordSuccess ==
    /\ pc = "rate_limiter"
    /\ Len(rate_limiter.calls) < MaxCalls
    /\ rate_limiter' = record_success(rate_limiter)
    /\ UNCHANGED <<analysis_vars, scrape, endpoint, progress_file, output_file, requests, runs,
                   fetch>>

RecordFailure ==
    /\ pc = "rate_limiter"
    /\ Len(rate_limiter.calls) < MaxCalls
    /\ rate_limiter' = record_failure(rate_limiter)
    /\ UNCHANGED <<analysis_vars, scrape, endpoint, progress_file, output_file, requests, runs,
                   fetch>>

NextRateLimiter ==
    \/ Wait
    \/ RecordSuccess
    \/ RecordFailure

SpecRateLimiter == InitRateLimiter /\ [][NextRateLimiter]_vars

----------------------------------------------------------------------------
(* scraper/autocomplete.py: scrape_autocomplete *)

ascii_lowercase ==
    << "a", "b", "c", "d", "e", "f", "g", "h", "i", "j", "k", "l", "m",
       "n", "o", "p", "q", "r", "s", "t", "u", "v", "w", "x", "y", "z" >>

\* The period of the incremental saves, in processed queries
SavePeriod == 50

\* The state of one call: its frame, the limiter it made, the files, and the
\* queries it sent
Machine == [ scrape |-> scrape, rate_limiter |-> rate_limiter,
             progress_file |-> progress_file, output_file |-> output_file,
             requests |-> requests ]

\* The answer of the endpoint to a query: ok with the suggestions, or an error
Answer(ep, query) ==
    IF query \in DOMAIN ep.answers THEN ep.answers[query] ELSE ep.default

\* str.strip: the characters it removes at both ends
Whitespace == {" ", "\t", "\n"}

RECURSIVE lstrip(_)
lstrip(s) ==
    IF Len(s) > 0 /\ SubSeq(s, 1, 1) \in Whitespace THEN lstrip(SubSeq(s, 2, Len(s))) ELSE s

RECURSIVE rstrip(_)
rstrip(s) ==
    IF Len(s) > 0 /\ SubSeq(s, Len(s), Len(s)) \in Whitespace
    THEN rstrip(SubSeq(s, 1, Len(s) - 1)) ELSE s

strip(s) == rstrip(lstrip(s))

\* Lines 56-60: the stripped value of every item, without the empty ones; an
\* item without "value" counts as the empty string
ParsedKeepingEmpty(values) ==
    List([i \in DOMAIN values |-> strip(values[i])])

Parsed(values) ==
    SelectSeq(List([i \in DOMAIN values |-> strip(values[i])]), LAMBDA v : v # "")

\* The exceptions of the three except clauses of lines 65-76, by the class
\* raised: session.get and raise_for_status raise the first ones, resp.json
\* and the reading of the items the others
RequestExceptions == {"ConnectionError", "Timeout", "HTTPError", "OSError"}
ParseExceptions == {"JSONDecodeError", "KeyError", "ValueError"}
OtherExceptions == {"AttributeError", "TypeError", "Exception"}

\* except clauses that let the parsing exceptions through
HandledRequestsOnly(error) == error \in RequestExceptions

Handled(error) == error \in RequestExceptions \cup ParseExceptions \cup OtherExceptions

\* _fetch_suggestions on a response: wait, request, then record_success with
\* the parsed suggestions, or record_failure with the empty list for a
\* handled exception; get_user_agent draws a header and changes nothing
Fetched(response, rl) ==
    LET waited == wait(rl)
    IN  IF response.ok
        THEN [suggestions |-> Parsed(response.suggestions),
              rate_limiter |-> record_success(waited), raised |-> FALSE]
        ELSE IF Handled(response.error)
        THEN [suggestions |-> <<>>, rate_limiter |-> record_failure(waited), raised |-> FALSE]
        ELSE [suggestions |-> <<>>, rate_limiter |-> waited, raised |-> TRUE]

_fetch_suggestions(query, rl, ep) == Fetched(Answer(ep, query), rl)

\* _load_progress that ignores the file
_load_progress_fresh(file) ==
    [completed_queries |-> <<>>, results |-> <<>>]

_load_progress(file) ==
    IF file.exists
    THEN [completed_queries |-> file.completed_queries, results |-> file.results]
    ELSE [completed_queries |-> <<>>, results |-> <<>>]

_save_progress(progress) ==
    [exists |-> TRUE, completed_queries |-> progress.completed_queries,
     results |-> progress.results]

\* Lines 113-134: load the progress, make the limiter, queue the seeds that
\* are not completed
Started(M, run) ==
    LET s == M.scrape
        progress == _load_progress(M.progress_file)
        completed == Range(progress.completed_queries)
        seeds == SelectSeq(List(s.seed_queries), LAMBDA q : q \notin completed)
    IN  [ M EXCEPT
            !.rate_limiter = NewRateLimiter,
            !.requests = <<>>,
            !.scrape = [ s EXCEPT
                !.completed = completed,
                !.progress = progress,
                !.found = M.progress_file,
                !.queue = List([i \in DOMAIN seeds |-> <<seeds[i], 0>>]),
                !.processed = Cardinality(completed),
                !.at = "loop", !.outcome = "none", !.returned = <<>> ] ]

\* A return that writes no file
FinishedWithoutFiles(M, outcome) ==
    [ M EXCEPT !.scrape = [ M.scrape EXCEPT !.at = "returned", !.outcome = outcome,
                                             !.returned = M.scrape.progress.results ] ]

\* Lines 181-197: save the progress, write the output file, return results
Finished(M, outcome) ==
    [ M EXCEPT
        !.progress_file = _save_progress(M.scrape.progress),
        !.output_file = [exists |-> TRUE, results |-> M.scrape.progress.results],
        !.scrape = [ M.scrape EXCEPT !.at = "returned", !.outcome = outcome,
                                      !.returned = M.scrape.progress.results ] ]

\* Branch queries put two levels below their parent
BranchQueriesTwoDeeper(suggestions, completed, depth) ==
    LET n == Len(ascii_lowercase)
        all == List([k \in 1..(Len(suggestions) * n) |->
                        suggestions[((k - 1) \div n) + 1] \o " "
                            \o ascii_lowercase[((k - 1) % n) + 1]])
        kept == SelectSeq(all, LAMBDA q : q \notin completed)
    IN  List([k \in DOMAIN kept |-> <<kept[k], depth + 2>>])

\* Lines 166-170: suggestion + " " + letter for every suggestion and letter,
\* in that order, without the completed ones
BranchQueries(suggestions, completed, depth) ==
    LET n == Len(ascii_lowercase)
        all == List([k \in 1..(Len(suggestions) * n) |->
                        suggestions[((k - 1) \div n) + 1] \o " "
                            \o ascii_lowercase[((k - 1) % n) + 1]])
        kept == SelectSeq(all, LAMBDA q : q \notin completed)
    IN  List([k \in DOMAIN kept |-> <<kept[k], depth + 1>>])

\* Lines 152-175: record the result, mark the query completed, queue the
\* branch queries, save every SavePeriod processed queries; results is the
\* list progress["results"] itself
Recorded(M, query, depth, suggestions, run) ==
    LET s == M.scrape
        result == [query |-> query, suggestions |-> suggestions,
                   timestamp |-> run, depth |-> depth]
        progress == [ completed_queries |-> Append(s.progress.completed_queries, query),
                      results |-> Append(s.progress.results, result) ]
        completed == s.completed \cup {query}
        processed == s.processed + 1
        queue == IF suggestions # <<>> /\ depth < s.max_depth
                 THEN s.queue \o BranchQueries(suggestions, completed, depth)
                 ELSE s.queue
    IN  [ M EXCEPT
            !.progress_file = IF processed % SavePeriod = 0
                              THEN _save_progress(progress) ELSE @,
            !.scrape = [ s EXCEPT !.progress = progress, !.completed = completed,
                                  !.processed = processed, !.queue = queue ] ]

\* A pop that leaves the queue as it is
PoppedNothing(M) == M

\* Line 138: queue.pop(0)
Popped(M) == [ M EXCEPT !.scrape.queue = Tail(M.scrape.queue) ]

\* A loop body that records the result before it tests the failures
IterationRecordingFirst(M, ep, run) ==
    LET s == M.scrape
        query == Head(s.queue)[1]
        depth == Head(s.queue)[2]
        popped == Popped(M)
    IN  IF query \in s.completed
        THEN popped
        ELSE LET fetched == _fetch_suggestions(query, M.rate_limiter, ep)
                 after == [ popped EXCEPT !.rate_limiter = fetched.rate_limiter,
                                          !.requests = Append(M.requests, query) ]
                 recorded == Recorded(after, query, depth, fetched.suggestions, run)
             IN  IF fetched.rate_limiter._consecutive_failures >= s.max_failures
                 THEN Finished(recorded, "aborted")
                 ELSE recorded

\* Lines 138-175: one turn of the loop on a non-empty queue
Iteration(M, ep, run) ==
    LET s == M.scrape
        query == Head(s.queue)[1]
        depth == Head(s.queue)[2]
        popped == Popped(M)
    IN  IF query \in s.completed
        THEN popped
        ELSE LET fetched == _fetch_suggestions(query, M.rate_limiter, ep)
                 after == [ popped EXCEPT !.rate_limiter = fetched.rate_limiter,
                                          !.requests = Append(M.requests, query) ]
             IN  IF fetched.rate_limiter._consecutive_failures >= s.max_failures
                 THEN Finished(after, "aborted")
                 ELSE Recorded(after, query, depth, fetched.suggestions, run)

\* KeyboardInterrupt in a turn of the loop: in the sleep of wait, or after
\* results.append and before completed.add; then lines 177-197
Interrupted(M, ep, run, point) ==
    LET s == M.scrape
        query == Head(s.queue)[1]
        depth == Head(s.queue)[2]
        popped == [ M EXCEPT !.scrape = [ s EXCEPT !.queue = Tail(s.queue) ] ]
        fetched == _fetch_suggestions(query, M.rate_limiter, ep)
        result == [query |-> query, suggestions |-> fetched.suggestions,
                   timestamp |-> run, depth |-> depth]
    IN  IF point = "wait"
        THEN Finished([ popped EXCEPT !.rate_limiter = wait(M.rate_limiter) ], "interrupted")
        ELSE Finished([ popped EXCEPT
                          !.rate_limiter = fetched.rate_limiter,
                          !.requests = Append(M.requests, query),
                          !.scrape.progress.results = Append(s.progress.results, result) ],
                      "interrupted")

Assign(M) ==
    /\ scrape' = M.scrape
    /\ rate_limiter' = M.rate_limiter
    /\ progress_file' = M.progress_file
    /\ output_file' = M.output_file
    /\ requests' = M.requests

\* scrape_autocomplete is called
Start ==
    /\ pc = "scrape"
    /\ scrape.at \in {"idle", "returned", "killed"}
    /\ runs < MaxRuns
    /\ runs' = runs + 1
    /\ \E after \in {Started(Machine, runs + 1)} : Assign(after)
    /\ UNCHANGED <<analysis_vars, endpoint, fetch>>

Iterate ==
    /\ pc = "scrape"
    /\ scrape.at = "loop"
    /\ scrape.queue # <<>>
    /\ \E after \in {Iteration(Machine, endpoint, runs)} : Assign(after)
    /\ UNCHANGED <<analysis_vars, endpoint, runs, fetch>>

\* The queue is empty: the loop ends and the call returns
Return ==
    /\ pc = "scrape"
    /\ scrape.at = "loop"
    /\ scrape.queue = <<>>
    /\ \E after \in {Finished(Machine, "complete")} : Assign(after)
    /\ UNCHANGED <<analysis_vars, endpoint, runs, fetch>>

Interrupt(point) ==
    /\ pc = "scrape"
    /\ scrape.at = "loop"
    /\ scrape.queue # <<>>
    /\ Head(scrape.queue)[1] \notin scrape.completed
    /\ point = "append" =>
          _fetch_suggestions(Head(scrape.queue)[1], rate_limiter, endpoint)
              .rate_limiter._consecutive_failures < scrape.max_failures
    /\ \E after \in {Interrupted(Machine, endpoint, runs, point)} : Assign(after)
    /\ UNCHANGED <<analysis_vars, endpoint, runs, fetch>>

\* The process is killed: nothing more is written
Kill ==
    /\ pc = "scrape"
    /\ scrape.at = "loop"
    /\ scrape' = [scrape EXCEPT !.at = "killed", !.outcome = "killed"]
    /\ UNCHANGED <<analysis_vars, endpoint, rate_limiter, progress_file, output_file,
                   requests, runs, fetch>>

NextScrape ==
    \/ Start
    \/ Iterate
    \/ Return
    \/ \E point \in {"wait", "append"} : Interrupt(point)
    \/ Kill

\* max_failures when the caller gives none
DefaultMaxFailures == 10

Ok(suggestions) == [ok |-> TRUE, suggestions |-> suggestions, error |-> "none"]
Failed == [ok |-> FALSE, suggestions |-> <<>>, error |-> "ConnectionError"]

\* test_scrape_resume_skips_completed: the progress file, the seeds and the
\* mocked endpoint, which answers every query alike
TestProgress ==
    [ exists |-> TRUE,
      completed_queries |-> << "sudoku book" >>,
      results |-> << [query |-> "sudoku book", suggestions |-> << "sudoku book easy" >>,
                      timestamp |-> 0, depth |-> 0] >> ]

TestSeeds == << "sudoku book", "maze book" >>

TestEndpoint == [answers |-> <<>>, default |-> Ok(<< "maze book for kids" >>)]

\* Endpoints that know a few queries and answer the others with nothing, or
\* with an error
OneBranch == [answers |-> [q \in {"a"} |-> Ok(<< "ax" >>)], default |-> Ok(<<>>)]

TwoLevels ==
    [ answers |-> [q \in {"a", "b", "ax c"} |->
                      IF q = "a" THEN Ok(<< "ax" >>)
                      ELSE IF q = "b" THEN Ok(<< "ax", "bx" >>)
                      ELSE Ok(<< "ay" >>)],
      default |-> Ok(<<>>) ]

\* An endpoint that has a suggestion for every query
Echo == [answers |-> <<>>, default |-> Ok(<< "ax" >>)]

Failing == [answers |-> [q \in {"a"} |-> Ok(<< "ax" >>)], default |-> Failed]

\* The calls studied: arguments, endpoint and the progress file found
ScrapeCases ==
    {[seed_queries |-> TestSeeds, max_depth |-> 0, max_failures |-> DefaultMaxFailures,
      endpoint |-> TestEndpoint, progress_file |-> f] : f \in {TestProgress, NoFile}}
    \cup {[seed_queries |-> << "a" >>, max_depth |-> d, max_failures |-> DefaultMaxFailures,
           endpoint |-> e, progress_file |-> NoFile] :
             d \in (-1)..MaxDepth, e \in {OneBranch, Failing}}
    \cup {[seed_queries |-> << "a", "a" >>, max_depth |-> 1, max_failures |-> DefaultMaxFailures,
           endpoint |-> e, progress_file |-> NoFile] : e \in {OneBranch, Echo}}
    \cup {[seed_queries |-> << "a", "b" >>, max_depth |-> MaxDepth, max_failures |-> 1,
           endpoint |-> e, progress_file |-> NoFile] : e \in {TwoLevels, Failing}}

InitScrape ==
    /\ pc = "scrape"
    /\ categorized = <<>>
    /\ call = [row_field |-> "", col_field |-> "", row_values |-> <<>>, col_values |-> <<>>]
    /\ matrix = <<>>
    /\ min_row_total = 3
    /\ min_col_total = 3
    /\ gaps = <<>>
    /\ modifier_gaps = <<>>
    /\ opportunities = <<>>
    /\ previous = <<>>
    /\ results = <<>>
    /\ output_dir = <<>>
    /\ rate_limiter = NewRateLimiter
    /\ output_file = [exists |-> FALSE, results |-> <<>>]
    /\ requests = <<>>
    /\ runs = 0
    /\ fetch = NotFetched
    /\ \E c \in ScrapeCases :
          /\ scrape = NotStarted(c.seed_queries, c.max_depth, c.max_failures)
          /\ endpoint = c.endpoint
          /\ progress_file = c.progress_file

SpecScrape == InitScrape /\ [][NextScrape]_vars

\* Runs that nothing interrupts: the loop is sequential code, its next turn,
\* or its exit on an empty queue, is taken
NextLoop ==
    \/ Start
    \/ Iterate
    \/ Return

SpecLoop == InitScrape /\ [][NextLoop]_vars /\ WF_vars(Iterate) /\ WF_vars(Return)

\* Responses to a direct call: values to strip and to drop, and the
\* exceptions of the request, of the status and of the parsing
Responses ==
    { Ok(<< "word search book", "word search for kids" >>),
      Ok(<< "  maze book ", "", " ", "sudoku\n", "\tmaze book" >>),
      Ok(<<>>) }
    \cup { [ok |-> FALSE, suggestions |-> <<>>, error |-> e] :
             e \in {"ConnectionError", "HTTPError", "JSONDecodeError", "AttributeError",
                    "Exception"} }

InitFetch ==
    /\ pc = "fetch"
    /\ categorized = <<>>
    /\ call = [row_field |-> "", col_field |-> "", row_values |-> <<>>, col_values |-> <<>>]
    /\ matrix = <<>>
    /\ min_row_total = 3
    /\ min_col_total = 3
    /\ gaps = <<>>
    /\ modifier_gaps = <<>>
    /\ opportunities = <<>>
    /\ previous = <<>>
    /\ results = <<>>
    /\ output_dir = <<>>
    /\ NoScrape

\* _fetch_suggestions("word search", rl, session) with this response; every
\* call makes two calls on the limiter
Fetch(response) ==
    /\ pc = "fetch"
    /\ Len(rate_limiter.calls) < 2 * MaxCalls
    /\ LET fetched == Fetched(response, rate_limiter)
       IN  /\ rate_limiter' = fetched.rate_limiter
           /\ fetch' = [query |-> "word search",
                        before |-> rate_limiter._consecutive_failures,
                        response |-> response,
                        suggestions |-> fetched.suggestions,
                        raised |-> fetched.raised]
    /\ UNCHANGED <<analysis_vars, scrape, endpoint, progress_file, output_file, requests, runs>>

NextFetch == \E response \in Responses : Fetch(response)

SpecFetch == InitFetch /\ [][NextFetch]_vars

----------------------------------------------------------------------------
(* analysis/categorizer.py *)

MODIFIERS ==
    << "large print", "easy", "hard", "giant", "relaxing", "fun",
       "challenging", "simple", "big", "small", "spiral bound",
       "pocket size", "jumbo", "mini", "deluxe" >>

AGE_RANGES ==
    << "ages 3-5", "ages 4-8", "ages 6-8", "ages 8-10",
       "ages 8-12", "ages 9-12", "ages 10-14" >>

\* str.lower on the ASCII letters; other characters are kept
lower(text) ==
    LET upper == "ABCDEFGHIJKLMNOPQRSTUVWXYZ"
        small == "abcdefghijklmnopqrstuvwxyz"
        capitals == { SubSeq(upper, k, k) : k \in 1..Len(upper) }
        low(ch) == IF ch \in capitals
                   THEN LET k == CHOOSE k \in 1..Len(upper) : SubSeq(upper, k, k) = ch
                        IN  SubSeq(small, k, k)
                   ELSE ch
        RECURSIVE from(_)
        from(i) == IF i > Len(text) THEN "" ELSE low(SubSeq(text, i, i)) \o from(i + 1)
    IN  from(1)

\* c in text, for strings: c is a substring of text
IsSubstring(c, text) ==
    \E i \in 1..(Len(text) - Len(c) + 1) : SubSeq(text, i, i + Len(c) - 1) = c

\* _find_matches that compares without lowering
_find_matches_cased(text, candidates) ==
    SelectSeq(candidates, LAMBDA c : IsSubstring(c, text))

_find_matches(text, candidates) ==
    LET lowered == lower(text)
    IN  SelectSeq(candidates, LAMBDA c : IsSubstring(lower(c), lowered))

\* matches or [sentinel]
OrElse(matches, sentinel) == IF matches = <<>> THEN <<sentinel>> ELSE matches

categorize_suggestion(text) ==
    [ suggestion   |-> text,
      puzzle_types |-> OrElse(_find_matches(text, PUZZLE_TYPES), "unknown"),
      audiences    |-> OrElse(_find_matches(text, AUDIENCES), "general"),
      themes       |-> OrElse(_find_matches(text, THEMES), "none"),
      modifiers    |-> OrElse(_find_matches(text, MODIFIERS), "none"),
      age_ranges   |-> OrElse(_find_matches(text, AGE_RANGES), "none") ]

\* Suggestions of the tests of the categorizer, and some with capitals, with
\* a term inside another word, with no term, and the empty one
Suggestions ==
    { "word search book for seniors large print",
      "sudoku book about animals for kids",
      "some random book",
      "word search book",
      "sudoku book for adults",
      "maze book for ages 4-8",
      "word search word find puzzle book",
      "Easy SUDOKU for Women",
      "" }

InitCategorize ==
    /\ pc = "categorizer"
    /\ categorized = <<>>
    /\ call = [row_field |-> "", col_field |-> "", row_values |-> <<>>, col_values |-> <<>>]
    /\ matrix = <<>>
    /\ min_row_total = 3
    /\ min_col_total = 3
    /\ gaps = <<>>
    /\ modifier_gaps = <<>>
    /\ opportunities = <<>>
    /\ previous = <<>>
    /\ results = <<>>
    /\ output_dir = <<>>
    /\ NoScrape

\* categorize, lines 63-66: one cleaned item is tagged and keeps its frequency
CategorizeSuggestion(item) ==
    /\ pc = "categorizer"
    /\ Len(categorized) < MaxItems
    /\ LET entry == categorize_suggestion(item.suggestion)
       IN  categorized' = Append(categorized,
                                 [ suggestion   |-> entry.suggestion,
                                   puzzle_types |-> entry.puzzle_types,
                                   audiences    |-> entry.audiences,
                                   themes       |-> entry.themes,
                                   modifiers    |-> entry.modifiers,
                                   age_ranges   |-> entry.age_ranges,
                                   frequency    |-> item.frequency ])
    /\ UNCHANGED <<pc, call, matrix, min_row_total, min_col_total, gaps, modifier_gaps,
                   opportunities, previous, find_gaps_vars, scraper_vars>>

NextCategorize ==
    \E text \in Suggestions, frequency \in {1, MaxFreq} :
        CategorizeSuggestion([suggestion |-> text, frequency |-> frequency])

SpecCategorize == InitCategorize /\ [][NextCategorize]_vars

----------------------------------------------------------------------------
(* Inputs of the analysis *)

\* Vocabularies of test_build_matrix_basic
TestPuzzleTypes == << "word search", "crossword", "sudoku" >>
TestThemes == << "animals", "bible", "sports" >>

\* Tag lists as categorize_suggestion produces them: the matched vocabulary
\* terms in vocabulary order, or the one-element sentinel list.
PuzzleTagLists ==
    { << "unknown" >>, << "word search" >>, << "word search", "crossword" >>,
      << "maze" >> }

ThemeTagLists ==
    { << "none" >>, << "animals" >>, << "animals", "bible" >>, << "cars" >> }

AudienceTagLists == { << "general" >>, << "kids", "adults" >> }

ModifierTagLists ==
    { << "none" >>, << "large print", "easy" >>,
      << "hard", "giant", "relaxing" >>, << "easy", "fun" >> }

\* Items that differ in puzzle types, themes and frequency (1 or the largest)
MatrixItems ==
    { [puzzle_types |-> p, audiences |-> << "general" >>, themes |-> t,
       modifiers |-> << "none" >>, frequency |-> f] :
        p \in PuzzleTagLists, t \in ThemeTagLists, f \in {1, MaxFreq} }

\* Items that differ in puzzle types and themes
CrossTypeItems ==
    { [puzzle_types |-> p, audiences |-> << "general" >>, themes |-> t,
       modifiers |-> << "none" >>, frequency |-> 1] :
        p \in { << "unknown" >>, << "word search" >>, << "word search", "crossword" >>,
                << "sudoku" >>, << "crossword", "sudoku" >>, << "jigsaw" >> },
        t \in { << "none" >>, << "animals" >>, << "animals", "bible" >> } }

\* Items that differ in puzzle types, audiences and modifiers
ModifierItems ==
    { [puzzle_types |-> p, audiences |-> a, themes |-> << "none" >>,
       modifiers |-> m, frequency |-> 1] :
        p \in { << "unknown" >>, << "word search" >>, << "word search", "crossword" >> },
        a \in AudienceTagLists, m \in ModifierTagLists }

\* Calls of _build_matrix: the one of test_build_matrix_basic, and one with the
\* dimensions exchanged whose vocabularies hold a sentinel value.
MatrixCalls ==
    { [row_field |-> "puzzle_types", col_field |-> "themes",
       row_values |-> TestPuzzleTypes, col_values |-> TestThemes],
      [row_field |-> "themes", col_field |-> "puzzle_types",
       row_values |-> << "animals", "bible", "none" >>,
       col_values |-> << "word search", "unknown" >>] }

NoCall == [row_field |-> "", col_field |-> "", row_values |-> <<>>, col_values |-> <<>>]

----------------------------------------------------------------------------
(* The analysis of a list of categorized items *)

\* Before find_gaps ran: nothing returned, the output directory empty
NothingAnalysed ==
    /\ results = <<>>
    /\ output_dir = <<>>
    /\ NoScrape

InitItems ==
    /\ pc = "categorize"
    /\ categorized = <<>>
    /\ call = NoCall
    /\ matrix = ZeroFrame(<<>>, <<>>)
    /\ min_row_total = 3
    /\ min_col_total = 3
    /\ gaps = <<>>
    /\ modifier_gaps = [puzzle_type_modifier_gaps |-> <<>>, audience_modifier_gaps |-> <<>>]
    /\ opportunities = <<>>
    /\ previous = <<>>
    /\ NothingAnalysed

\* categorized.append(entry)
Categorize(item) ==
    /\ pc = "categorize"
    /\ Len(categorized) < MaxItems
    /\ categorized' = Append(categorized, item)
    /\ UNCHANGED <<pc, call, matrix, min_row_total, min_col_total, gaps,
                   modifier_gaps, opportunities, previous, find_gaps_vars,
                   scraper_vars>>

BuildMatrix(c) ==
    /\ pc = "categorize"
    /\ pc' = "matrix"
    /\ call' = c
    /\ matrix' = _build_matrix(categorized, c.row_field, c.col_field,
                               c.row_values, c.col_values)
    /\ UNCHANGED <<categorized, min_row_total, min_col_total, gaps,
                   modifier_gaps, opportunities, previous, find_gaps_vars,
                   scraper_vars>>

\* _find_gaps(matrix) on the matrix just built, with the default thresholds
ScoreMatrix ==
    /\ pc = "matrix"
    /\ pc' = "gaps"
    /\ gaps' = _find_gaps(matrix, min_row_total, min_col_total)
    /\ UNCHANGED <<categorized, call, matrix, min_row_total, min_col_total,
                   modifier_gaps, opportunities, previous, find_gaps_vars,
                   scraper_vars>>

FindModifierGaps ==
    /\ pc = "categorize"
    /\ pc' = "modifiers"
    /\ modifier_gaps' = _find_modifier_gaps(categorized)
    /\ UNCHANGED <<categorized, call, matrix, min_row_total, min_col_total,
                   gaps, opportunities, previous, find_gaps_vars,
                   scraper_vars>>

FindCrossTypeOpportunities(theme_order) ==
    /\ pc = "categorize"
    /\ pc' = "cross_type"
    /\ opportunities' = _find_cross_type_opportunities(categorized, theme_order)
    /\ UNCHANGED <<categorized, call, matrix, min_row_total, min_col_total,
                   gaps, modifier_gaps, previous, find_gaps_vars,
                   scraper_vars>>

Next ==
    \/ \E item \in MatrixItems : Categorize(item)
    \/ \E c \in MatrixCalls : BuildMatrix(c)
    \/ ScoreMatrix

Spec == InitItems /\ [][Next]_vars

NextCrossType ==
    \/ \E item \in CrossTypeItems : Categorize(item)
    \/ \E theme_order \in Enumerations(AllThemesSeen(TypeThemes(categorized))) :
           FindCrossTypeOpportunities(theme_order)

SpecCrossType == InitItems /\ [][NextCrossType]_vars

NextModifiers ==
    \/ \E item \in ModifierItems : Categorize(item)
    \/ FindModifierGaps

SpecModifiers == InitItems /\ [][NextModifiers]_vars

----------------------------------------------------------------------------
(* find_gaps: the three matrices, their gaps, the modifier gaps and the     *)
(* cross-type opportunities, returned and written to the output directory  *)

\* The number of entries of a list that find_gaps keeps
TopEntries == 100

\* The whole list instead of s[:n]
PrefixWhole(s, n) == s

\* s[:n]
Prefix(s, n) == SubSeq(s, 1, IF Len(s) < n THEN Len(s) ELSE n)

\* DataFrame.to_csv: a header line of the column labels after an empty
\* corner, then one line per row holding its label and its cells
to_csv(m) ==
    << <<"">> \o m.columns >>
        \o [i \in DOMAIN m.index |->
               <<m.index[i]>> \o [j \in DOMAIN m.columns |->
                                     m.at[<<m.index[i], m.columns[j]>>]]]

\* {k: v for k, v in results.items() if k != "matrices"}
json_results(res) == [k \in (DOMAIN res) \ {"matrices"} |-> res[k]]

\* The dict find_gaps returns; theme_order is the order in which this run
\* enumerates all_themes_seen
find_gaps(items, theme_order) ==
    LET pt_theme == _build_matrix(items, "puzzle_types", "themes", PUZZLE_TYPES, THEMES)
        pt_audience == _build_matrix(items, "puzzle_types", "audiences", PUZZLE_TYPES, AUDIENCES)
        theme_audience == _build_matrix(items, "themes", "audiences", THEMES, AUDIENCES)
    IN  [puzzle_type_x_theme_gaps |-> Prefix(_find_gaps(pt_theme, 3, 3), TopEntries),
         puzzle_type_x_audience_gaps |-> Prefix(_find_gaps(pt_audience, 3, 3), TopEntries),
         theme_x_audience_gaps |-> Prefix(_find_gaps(theme_audience, 3, 3), TopEntries),
         modifier_gaps |-> _find_modifier_gaps(items),
         cross_type_opportunities |->
             Prefix(_find_cross_type_opportunities(items, theme_order), TopEntries),
         matrices |-> [puzzle_type_x_theme |-> pt_theme,
                       puzzle_type_x_audience |-> pt_audience,
                       theme_x_audience |-> theme_audience]]

\* The files of the output directory after find_gaps
OutputFiles(res) ==
    [name \in {"matrix_puzzle_type_x_theme.csv", "matrix_puzzle_type_x_audience.csv",
                "matrix_theme_x_audience.csv", "gap_analysis.json"} |->
        CASE name = "matrix_puzzle_type_x_theme.csv" -> to_csv(res.matrices.puzzle_type_x_theme)
          [] name = "matrix_puzzle_type_x_audience.csv" -> to_csv(res.matrices.puzzle_type_x_audience)
          [] name = "matrix_theme_x_audience.csv" -> to_csv(res.matrices.theme_x_audience)
          [] OTHER -> json_results(res)]

\* find_gaps on the categorized items
RunFindGaps(theme_order) ==
    /\ pc = "categorize"
    /\ pc' = "analysed"
    /\ results' = find_gaps(categorized, theme_order)
    /\ output_dir' = OutputFiles(results')
    /\ UNCHANGED <<categorized, call, matrix, min_row_total, min_col_total,
                   gaps, modifier_gaps, opportunities, previous,
                   scraper_vars>>

\* Items of the repeated calls: tagged inside and outside the vocabularies
\* of the call and with the sentinel values
RepeatedItems ==
    { [puzzle_types |-> p, audiences |-> << "general" >>, themes |-> t,
       modifiers |-> << "none" >>, frequency |-> f] :
        p \in { << "word search" >>, << "crossword" >>, << "word search", "crossword" >>,
                << "maze" >> },
        t \in { << "none" >>, << "animals", "bible" >>, << "sports" >>,
                << "animals", "sports" >> },
        f \in {1, MaxFreq} }

\* The analysis with thresholds 1 or with the default thresholds
InitRepeated ==
    /\ pc = "categorize"
    /\ categorized = <<>>
    /\ call = NoCall
    /\ matrix = ZeroFrame(<<>>, <<>>)
    /\ min_row_total \in {1, 3}
    /\ min_col_total = min_row_total
    /\ gaps = <<>>
    /\ modifier_gaps = [puzzle_type_modifier_gaps |-> <<>>, audience_modifier_gaps |-> <<>>]
    /\ opportunities = <<>>
    /\ previous = <<>>
    /\ NothingAnalysed

\* The second run adding its counts to the matrix of the first
RunAgainOnCounts ==
    /\ pc = "gaps"
    /\ pc' = "again"
    /\ previous' = [matrix |-> matrix, gaps |-> gaps]
    /\ LET df == _build_matrix(categorized, call.row_field, call.col_field,
                               call.row_values, call.col_values)
       IN  matrix' = [df EXCEPT !.at = [rc \in DOMAIN df.at |-> matrix.at[rc] + df.at[rc]]]
    /\ gaps' = _find_gaps(matrix', min_row_total, min_col_total)
    /\ UNCHANGED <<categorized, call, min_row_total, min_col_total,
                   modifier_gaps, opportunities, find_gaps_vars,
                   scraper_vars>>

\* _build_matrix and _find_gaps run a second time on the same items, with the
\* same arguments
RunAgain ==
    /\ pc = "gaps"
    /\ pc' = "again"
    /\ previous' = [matrix |-> matrix, gaps |-> gaps]
    /\ matrix' = _build_matrix(categorized, call.row_field, call.col_field,
                               call.row_values, call.col_values)
    /\ gaps' = _find_gaps(matrix', min_row_total, min_col_total)
    /\ UNCHANGED <<categorized, call, min_row_total, min_col_total,
                   modifier_gaps, opportunities, find_gaps_vars,
                   scraper_vars>>

\* _build_matrix called a second time, on the items followed by one more
BuildLonger(item) ==
    /\ pc = "matrix"
    /\ Len(categorized) < MaxItems
    /\ pc' = "longer"
    /\ previous' = [matrix |-> matrix, gaps |-> gaps]
    /\ categorized' = Append(categorized, item)
    /\ matrix' = _build_matrix(categorized', call.row_field, call.col_field,
                               call.row_values, call.col_values)
    /\ UNCHANGED <<call, min_row_total, min_col_total, gaps,
                   modifier_gaps, opportunities, find_gaps_vars,
                   scraper_vars>>

NextRepeated ==
    \/ \E item \in RepeatedItems : Categorize(item)
    \/ \E c \in MatrixCalls : BuildMatrix(c)
    \/ ScoreMatrix
    \/ RunAgain
    \/ \E item \in RepeatedItems : BuildLonger(item)

SpecRepeated == InitRepeated /\ [][NextRepeated]_vars

\* The keys of a categorized item that hold tag lists (categorize_suggestion)
KnownDimensions == {"puzzle_types", "audiences", "themes", "modifiers", "age_ranges"}

\* Calls of _build_matrix, two of them with a dimension name no item has
DimensionCalls ==
    MatrixCalls
        \cup { [row_field |-> "genres", col_field |-> "themes",
                row_values |-> TestPuzzleTypes, col_values |-> TestThemes],
               [row_field |-> "puzzle_types", col_field |-> "theme",
                row_values |-> TestPuzzleTypes, col_values |-> TestThemes] }

NextDimension ==
    \/ \E item \in MatrixItems : Categorize(item)
    \/ \E c \in DimensionCalls : BuildMatrix(c)

SpecDimension == InitItems /\ [][NextDimension]_vars

\* The items of _make_categorized_items
TestItems ==
    << [puzzle_types |-> << "word search" >>, audiences |-> << "kids" >>,
        themes |-> << "animals" >>, modifiers |-> << "none" >>, frequency |-> 5],
       [puzzle_types |-> << "word search" >>, audiences |-> << "seniors" >>,
        themes |-> << "bible" >>, modifiers |-> << "large print" >>, frequency |-> 8],
       [puzzle_types |-> << "crossword" >>, audiences |-> << "adults" >>,
        themes |-> << "animals" >>, modifiers |-> << "none" >>, frequency |-> 3],
       [puzzle_types |-> << "sudoku" >>, audiences |-> << "adults" >>,
        themes |-> << "animals" >>, modifiers |-> << "easy" >>, frequency |-> 4] >>

\* A categorized file of n items: item i carries the i-th theme under the
\* i-th and the next puzzle type, for one of the first four audiences
FileOf(n, freq) ==
    [i \in 1..n |->
        [puzzle_types |-> << PUZZLE_TYPES[i], PUZZLE_TYPES[i + 1] >>,
         audiences |-> << AUDIENCES[(i % 4) + 1] >>,
         themes |-> << THEMES[i] >>,
         modifiers |-> << key_modifiers[(i % 5) + 1] >>,
         frequency |-> freq]]

CategorizedFiles ==
    {TestItems} \cup { FileOf(n, freq) : n \in 1..MaxFileItems, freq \in 1..MaxFileFreq }

\* json.load of the categorized file
InitFile ==
    /\ pc = "categorize"
    /\ categorized \in CategorizedFiles
    /\ call = NoCall
    /\ matrix = ZeroFrame(<<>>, <<>>)
    /\ min_row_total = 3
    /\ min_col_total = 3
    /\ gaps = <<>>
    /\ modifier_gaps = [puzzle_type_modifier_gaps |-> <<>>, audience_modifier_gaps |-> <<>>]
    /\ opportunities = <<>>
    /\ previous = <<>>
    /\ NothingAnalysed

NextFindGaps ==
    \E theme_order \in SeededEnumerations(AllThemesSeen(TypeThemes(categorized))) :
        RunFindGaps(theme_order)

SpecFindGaps == InitFile /\ [][NextFindGaps]_vars

\* find_gaps run by a second process on the same categorized file: the
\* process enumerates all_themes_seen in an order of its own
RunFindGapsAgain(theme_order) ==
    /\ pc = "analysed"
    /\ pc' = "analysed_again"
    /\ previous' = [results |-> results, output_dir |-> output_dir]
    /\ results' = find_gaps(categorized, theme_order)
    /\ output_dir' = OutputFiles(results')
    /\ UNCHANGED <<categorized, call, matrix, min_row_total, min_col_total,
                   gaps, modifier_gaps, opportunities,
                   scraper_vars>>

\* The categorized files of two items and more, at the largest frequency
InitTwoRuns ==
    /\ InitFile
    /\ \E n \in 2..MaxFileItems : categorized = FileOf(n, MaxFileFreq)

NextTwoRuns ==
    \/ NextFindGaps
    \/ \E theme_order \in SeededEnumerations(AllThemesSeen(TypeThemes(categorized))) :
           RunFindGapsAgain(theme_order)

SpecTwoRuns == InitTwoRuns /\ [][NextTwoRuns]_vars

----------------------------------------------------------------------------
(* Inputs of _find_gaps *)

\* pd.DataFrame(rows, index=index, columns=columns)
Position(s, x) == CHOOSE i \in DOMAIN s : s[i] = x

Frame(rows, index, columns) ==
    [index |-> index, columns |-> columns,
     at |-> [rc \in Range(index) \X Range(columns) |->
                rows[Position(index, rc[1])][Position(columns, rc[2])]]]

\* The matrix of test_find_gaps_uses_geometric_mean
GeometricMeanMatrix ==
    Frame(<< <<10, 0, 5>>, <<0, 8, 3>> >>,
          << "word search", "crossword" >>, << "animals", "bible", "sports" >>)

\* The matrices of the other tests of _find_gaps
TestMatrices ==
    { GeometricMeanMatrix,
      Frame(<< <<5, 0>>, <<3, 2>> >>,
            << "word search", "crossword" >>, << "animals", "bible" >>),
      Frame(<< <<10, 0>>, <<0, 1>> >>,
            << "word search", "obscure" >>, << "animals", "rare_theme" >>),
      Frame(<< <<50, 0>>, <<0, 30>> >>,
            << "word search", "crossword" >>, << "animals", "bible" >>),
      Frame(<< <<5, 0>>, <<3, 2>>, <<0, 4>> >>,
            << "word search", "crossword", "sudoku" >>, << "animals", "bible" >>),
      Frame(<< <<200, 0, 0>>, <<0, 0, 50>> >>,
            << "word search", "crossword" >>, << "animals", "cars", "bible" >>) }

\* Every matrix of two rows and three columns with cells in 0..MaxCell
SmallMatrices ==
    { Frame(rows, << "word search", "crossword" >>, << "animals", "bible", "sports" >>) :
        rows \in [1..2 -> [1..3 -> 0..MaxCell]] }

\* Matrices of six rows around the thresholds of the confidence tiers: the
\* first row holds only a large second cell, the others only a first cell.
TallMatrices ==
    { Frame([i \in 1..6 |-> IF i = 1 THEN <<0, big>> ELSE <<first[i], 0>>],
            SubSeq(PUZZLE_TYPES, 1, 6), << "animals", "bible" >>) :
        big \in {19, 20, 49, 50}, first \in [2..6 -> {0, 3, 4, 5}] }

\* Every matrix of three rows and two columns with cells in 0..MaxCell
RescoreMatrices ==
    { Frame(rows, TestPuzzleTypes, << "animals", "bible" >>) :
        rows \in [1..3 -> [1..2 -> 0..MaxCell]] }

Thresholds == 0..MaxThreshold

\* m with n units of the cell (from, col) moved to the cell (to, col): the
\* column keeps its total
MoveInColumn(m, col, from, to, n) ==
    [m EXCEPT !.at[<<from, col>>] = @ - n, !.at[<<to, col>>] = @ + n]

Moves(m) ==
    { MoveInColumn(m, col, from, to, n) :
        col \in Range(m.columns),
        from \in Range(m.index), to \in Range(m.index), n \in 1..MaxCell }

----------------------------------------------------------------------------
(* Calls of _find_gaps on a given matrix *)

InitFrom(matrices, row_thresholds, col_thresholds) ==
    /\ pc = "start"
    /\ categorized = <<>>
    /\ call = NoCall
    /\ matrix \in matrices
    /\ min_row_total \in row_thresholds
    /\ min_col_total \in col_thresholds
    /\ gaps = <<>>
    /\ modifier_gaps = [puzzle_type_modifier_gaps |-> <<>>, audience_modifier_gaps |-> <<>>]
    /\ opportunities = <<>>
    /\ previous = <<>>
    /\ NothingAnalysed

InitGaps ==
    \/ InitFrom(SmallMatrices \cup TestMatrices, Thresholds, Thresholds)
    \/ InitFrom(TallMatrices, {3}, {3})

FindGaps ==
    /\ pc = "start"
    /\ pc' = "scored"
    /\ gaps' = _find_gaps(matrix, min_row_total, min_col_total)
    /\ UNCHANGED <<categorized, call, matrix, min_row_total, min_col_total,
                   modifier_gaps, opportunities, previous, find_gaps_vars,
                   scraper_vars>>

SpecGaps == InitGaps /\ [][FindGaps]_vars

\* A second call, on a matrix that moved some count inside one column
Rescore(m) ==
    /\ pc = "scored"
    /\ pc' = "rescored"
    /\ \A rc \in DOMAIN m.at : m.at[rc] >= 0
    /\ previous' = [matrix |-> matrix, gaps |-> gaps]
    /\ matrix' = m
    /\ gaps' = _find_gaps(m, min_row_total, min_col_total)
    /\ UNCHANGED <<categorized, call, min_row_total, min_col_total,
                   modifier_gaps, opportunities, find_gaps_vars,
                   scraper_vars>>

NextRescore ==
    \/ FindGaps
    \/ \E m \in Moves(matrix) : Rescore(m)

SpecRescore == InitFrom(RescoreMatrices, {1}, {1}) /\ [][NextRescore]_vars

\* Calls of _find_gaps with thresholds below zero, zero and above
SignedThresholds == {-MaxThreshold, -1, 0, 1}

SpecSigned ==
    InitFrom(RescoreMatrices \cup TestMatrices, SignedThresholds, SignedThresholds)
        /\ [][FindGaps]_vars

----------------------------------------------------------------------------
(* Properties of _build_matrix *)

RECURSIVE SumOver(_, _)
SumOver(f, S) ==
    IF S = {} THEN 0
    ELSE LET x == CHOOSE y \in S : TRUE
         IN  f[x] + SumOver(f, S \ {x})

Built == pc \in {"matrix", "gaps"}

\* The item carries the tag v on the dimension `field`, v not a sentinel
TaggedWith(item, field, v) == v \notin Sentinels /\ Contains(item[field], v)

C2_ShapeIsVocabulary ==
    Built =>
        /\ matrix.index = call.row_values
        /\ matrix.columns = call.col_values
        /\ DOMAIN matrix.at = Range(call.row_values) \X Range(call.col_values)

\* An item tagged outside both vocabularies, and a row left at zero
C2_Witness ==
    /\ pc = "matrix"
    /\ call.row_values = TestPuzzleTypes
    /\ \E i \in DOMAIN categorized :
           categorized[i].puzzle_types = << "maze" >> /\ categorized[i].themes = << "cars" >>
    /\ \E i \in DOMAIN categorized : categorized[i].puzzle_types = << "word search" >>
    /\ \A c \in Range(call.col_values) : matrix.at[<<"sudoku", c>>] = 0

TotalOfCells == SumOver(matrix.at, DOMAIN matrix.at)

\* The number of tags of the item on the dimension that are in `allowed`
TagCount(item, field, allowed) ==
    Cardinality({ k \in DOMAIN item[field] : item[field][k] \in allowed })

AnyTag(field) == UNION { Range(categorized[i][field]) : i \in DOMAIN categorized }

\* C3 as stated: the cells add up to the sum over the items of
\* frequency x (non-sentinel row tags) x (non-sentinel column tags).
C3_TotalCountsEveryTag ==
    Built =>
        TotalOfCells =
            SumOver([i \in DOMAIN categorized |->
                        categorized[i].frequency
                        * TagCount(categorized[i], call.row_field,
                                   AnyTag(call.row_field) \ Sentinels)
                        * TagCount(categorized[i], call.col_field,
                                   AnyTag(call.col_field) \ Sentinels)],
                    DOMAIN categorized)

\* C3 amended: only the non-sentinel tags that are values of the vocabularies
\* are counted.
C3_TotalCountsVocabularyTags ==
    Built =>
        TotalOfCells =
            SumOver([i \in DOMAIN categorized |->
                        categorized[i].frequency
                        * TagCount(categorized[i], call.row_field,
                                   Range(call.row_values) \ Sentinels)
                        * TagCount(categorized[i], call.col_field,
                                   Range(call.col_values) \ Sentinels)],
                    DOMAIN categorized)

\* An item with two tags on each dimension is counted four times
C3_Witness ==
    /\ pc = "matrix"
    /\ call.row_field = "puzzle_types"
    /\ Len(categorized) = 2
    /\ categorized[1].puzzle_types = << "word search", "crossword" >>
    /\ categorized[1].themes = << "animals", "bible" >>
    /\ categorized[1].frequency = 2
    /\ categorized[2].puzzle_types = << "maze" >>
    /\ categorized[2].themes = << "animals" >>
    /\ TotalOfCells = 8

----------------------------------------------------------------------------
(* Properties of _find_gaps *)

Scored == pc = "scored"

RowSum(r) == SumOver(matrix.at, {r} \X Range(matrix.columns))
ColSum(c) == SumOver(matrix.at, Range(matrix.index) \X {c})
NonZeroRows(c) == { r \in Range(matrix.index) : matrix.at[<<r, c>>] # 0 }

\* C4: every gap returned refers to a cell holding 0 whose row total and
\* column total reach the thresholds; with min_col_total >= 1 no column of
\* total 0 is returned.
C4_GapsAreZeroCellsWithDemand ==
    Scored =>
        \A k \in DOMAIN gaps :
            /\ matrix.at[<<gaps[k].row, gaps[k].column>>] = 0
            /\ RowSum(gaps[k].row) >= min_row_total
            /\ ColSum(gaps[k].column) >= min_col_total
            /\ min_col_total >= 1 => ColSum(gaps[k].column) # 0

\* A gap is returned while a zero cell of the same row is left out because
\* its column total is 0, and a zero cell of another row, in a column that
\* reaches the threshold, because of its row total
C4_Witness ==
    /\ Scored
    /\ min_col_total >= 1
    /\ \E k \in DOMAIN gaps, c \in Range(matrix.columns) :
           /\ matrix.at[<<gaps[k].row, c>>] = 0
           /\ ColSum(c) = 0
           /\ ~ \E j \in DOMAIN gaps : gaps[j].column = c
    /\ \E r \in Range(matrix.index), c \in Range(matrix.columns) :
           /\ matrix.at[<<r, c>>] = 0
           /\ ColSum(c) >= min_col_total
           /\ RowSum(r) < min_row_total
           /\ ~ \E j \in DOMAIN gaps : gaps[j].row = r

\* The position of the cell of a gap in the scan of the matrix
ScanPosition(g) ==
    (Position(matrix.index, g.row) - 1) * Len(matrix.columns)
        + Position(matrix.columns, g.column)

\* C5: the gaps are in non-increasing order of score, and gaps of equal score
\* are in the order of the scan (rows in index order, then columns).
C5_GapsSortedByScore ==
    Scored =>
        \A i, j \in DOMAIN gaps :
            i < j =>
                /\ gaps[i].score >= gaps[j].score
                /\ gaps[i].score = gaps[j].score =>
                       ScanPosition(gaps[i]) < ScanPosition(gaps[j])

\* The sort moved a later cell of the scan to the front, and two gaps tie
C5_Witness ==
    /\ Scored
    /\ \E i, j \in DOMAIN gaps :
           i < j /\ gaps[i].score > gaps[j].score
                 /\ ScanPosition(gaps[i]) > ScanPosition(gaps[j])
    /\ \E i, j \in DOMAIN gaps : i < j /\ gaps[i].score = gaps[j].score

\* s tenths is a nearest tenth to sqrt(rt * ct) * (1 + fill / rows):
\* |s - 10 * sqrt(rt * ct) * (rows + fill) / rows| <= 1/2, stated on squares
NearestTenth(s, rt, ct, fill, rows) ==
    LET q == 400 * rt * ct * (rows + fill) * (rows + fill)
        lo == (2 * s - 1) * rows
        hi == (2 * s + 1) * rows
    IN  /\ s >= 0
        /\ s >= 1 => lo * lo <= q
        /\ q <= hi * hi

\* C6: the score of every gap is sqrt(row_total x col_total) x
\* (1 + col_fill_count / rows of the matrix) rounded to one decimal, and for
\* the matrix [[10,0,5],[0,8,3]] with thresholds 1 the gap (word search,
\* bible) has row_total 15, col_total 8, col_fill_count 1, fill rate 0.5 and
\* score 16.4.
C6_ScoreIsRoundedGeometricMean ==
    Scored =>
        /\ \A k \in DOMAIN gaps :
               /\ gaps[k].row_total = RowSum(gaps[k].row)
               /\ gaps[k].col_total = ColSum(gaps[k].column)
               /\ gaps[k].col_fill_count = Cardinality(NonZeroRows(gaps[k].column))
               /\ NearestTenth(gaps[k].score, gaps[k].row_total, gaps[k].col_total,
                               gaps[k].col_fill_count, Len(matrix.index))
        /\ (matrix = GeometricMeanMatrix /\ min_row_total = 1 /\ min_col_total = 1) =>
               \E k \in DOMAIN gaps :
                   /\ gaps[k].row = "word search" /\ gaps[k].column = "bible"
                   /\ gaps[k].row_total = 15 /\ gaps[k].col_total = 8
                   /\ gaps[k].col_fill_count = 1 /\ gaps[k].col_fill_rate = 50
                   /\ gaps[k].score = 164

C6_Witness ==
    /\ Scored
    /\ matrix = GeometricMeanMatrix /\ min_row_total = 1 /\ min_col_total = 1
    /\ Len(gaps) = 2
    /\ gaps[1].row = "word search" /\ gaps[1].score = 164

\* C7: confidence is "high" exactly when row_total >= 50, col_total >= 20 and
\* col_fill_count >= 5, otherwise "medium" exactly when row_total >= 20,
\* col_total >= 10 and col_fill_count >= 3, otherwise "low".
C7_ConfidenceTiers ==
    Scored =>
        \A k \in DOMAIN gaps :
            LET rt == RowSum(gaps[k].row)
                ct == ColSum(gaps[k].column)
                fill == Cardinality(NonZeroRows(gaps[k].column))
                high == rt >= 50 /\ ct >= 20 /\ fill >= 5
                medium == rt >= 20 /\ ct >= 10 /\ fill >= 3
            IN  /\ gaps[k].confidence \in {"high", "medium", "low"}
                /\ gaps[k].confidence = "high" <=> high
                /\ gaps[k].confidence = "medium" <=> (~high /\ medium)
                /\ gaps[k].confidence = "low" <=> (~high /\ ~medium)

\* A gap exactly on the thresholds of "high" beside gaps that are "low"
C7_Witness ==
    /\ Scored
    /\ \E k \in DOMAIN gaps :
           /\ gaps[k].confidence = "high"
           /\ gaps[k].row_total = 50 /\ gaps[k].col_total = 20
           /\ gaps[k].col_fill_count = 5
    /\ \E k \in DOMAIN gaps : gaps[k].confidence = "low"

\* C8: when a gap cell has the same row total and column total in two
\* matrices of the same number of rows and its column has more non-zero rows
\* in the second, its score in the second is at least its score in the first.
C8_ScoreMonotonicInFill ==
    pc = "rescored" =>
        \A i \in DOMAIN previous.gaps, j \in DOMAIN gaps :
            ( /\ Len(previous.matrix.index) = Len(matrix.index)
              /\ gaps[j].row = previous.gaps[i].row
              /\ gaps[j].column = previous.gaps[i].column
              /\ gaps[j].row_total = previous.gaps[i].row_total
              /\ gaps[j].col_total = previous.gaps[i].col_total
              /\ gaps[j].col_fill_count > previous.gaps[i].col_fill_count )
            => gaps[j].score >= previous.gaps[i].score

\* The same gap with unchanged totals, a fuller column and a higher score
C8_Witness ==
    /\ pc = "rescored"
    /\ \E i \in DOMAIN previous.gaps, j \in DOMAIN gaps :
           /\ gaps[j].row = previous.gaps[i].row
           /\ gaps[j].column = previous.gaps[i].column
           /\ gaps[j].row_total = previous.gaps[i].row_total
           /\ gaps[j].col_total = previous.gaps[i].col_total
           /\ gaps[j].col_fill_count > previous.gaps[i].col_fill_count
           /\ gaps[j].score > previous.gaps[i].score

----------------------------------------------------------------------------
(* Properties of _find_modifier_gaps *)

\* Some item carries v on the dimension together with the modifier m
ObservedWith(field, v, m) ==
    \E i \in DOMAIN categorized :
        Contains(categorized[i][field], v) /\ Contains(categorized[i].modifiers, m)

NeverObserved(field, v) ==
    { m \in Range(key_modifiers) : ~ObservedWith(field, v, m) }

\* d reports, for the vocabulary, exactly the values that lack a key modifier,
\* each once, with the key modifiers it lacks in key-modifier order
ReportsMissing(d, field, vocabulary) ==
    /\ \A i, j \in DOMAIN d : d[i][1] = d[j][1] => i = j
    /\ \A i \in DOMAIN d : d[i][1] \in Range(vocabulary)
    /\ \A v \in Range(vocabulary) :
           /\ DictHas(d, v) <=> NeverObserved(field, v) # {}
           /\ DictHas(d, v) =>
                  LET missing == DictGet(d, v)
                  IN  /\ Range(missing) = NeverObserved(field, v)
                      /\ \A i, j \in DOMAIN missing :
                             i < j => Position(key_modifiers, missing[i])
                                          < Position(key_modifiers, missing[j])
           /\ (~ \E i \in DOMAIN categorized : Contains(categorized[i][field], v))
                  => DictHas(d, v) /\ DictGet(d, v) = key_modifiers

\* C9: for puzzle types and for audiences, a vocabulary value is reported
\* exactly when some key modifier was never tagged together with it, with
\* exactly those key modifiers in key-modifier order; a value with no items is
\* reported with all five.
C9_ModifierGapsAreMissingKeyModifiers ==
    pc = "modifiers" =>
        /\ ReportsMissing(modifier_gaps.puzzle_type_modifier_gaps, "puzzle_types", PUZZLE_TYPES)
        /\ ReportsMissing(modifier_gaps.audience_modifier_gaps, "audiences", AUDIENCES)

\* "word search" has all five key modifiers over two items and is not
\* reported; "crossword" lacks the three it was never tagged with
C9_Witness ==
    /\ pc = "modifiers"
    /\ ~DictHas(modifier_gaps.puzzle_type_modifier_gaps, "word search")
    /\ DictHas(modifier_gaps.puzzle_type_modifier_gaps, "crossword")
    /\ DictGet(modifier_gaps.puzzle_type_modifier_gaps, "crossword")
           = << "hard", "giant", "relaxing" >>
    /\ DictGet(modifier_gaps.puzzle_type_modifier_gaps, "sudoku") = key_modifiers
    /\ ~DictHas(modifier_gaps.audience_modifier_gaps, "kids")

----------------------------------------------------------------------------
(* Properties of _find_cross_type_opportunities *)

\* Some item carries the puzzle type q together with the theme t
CoTagged(q, t) ==
    /\ q # "unknown"
    /\ t # "none"
    /\ \E i \in DOMAIN categorized :
           Contains(categorized[i].puzzle_types, q) /\ Contains(categorized[i].themes, t)

TaggedTypes == UNION { Range(categorized[i].puzzle_types) : i \in DOMAIN categorized }
TaggedThemes == UNION { Range(categorized[i].themes) : i \in DOMAIN categorized }

OtherTypesWith(p, t) == { q \in TaggedTypes : q # p /\ CoTagged(q, t) }

\* C10: the pair (p, t) is emitted exactly when p is in the puzzle-type
\* vocabulary, t was observed with some puzzle type, never with p, and with
\* at least 2 other puzzle types; it is emitted once, with that number.
C10_CrossTypeOpportunities ==
    pc = "cross_type" =>
        /\ \A p \in Range(PUZZLE_TYPES) \cup TaggedTypes, t \in TaggedThemes :
               (\E k \in DOMAIN opportunities :
                    opportunities[k].puzzle_type = p /\ opportunities[k].theme = t)
               <=> ( /\ p \in Range(PUZZLE_TYPES)
                     /\ \E q \in TaggedTypes : CoTagged(q, t)
                     /\ ~CoTagged(p, t)
                     /\ Cardinality(OtherTypesWith(p, t)) >= 2 )
        /\ \A k \in DOMAIN opportunities :
               /\ opportunities[k].theme \in TaggedThemes
               /\ opportunities[k].other_types_with_theme
                      = Cardinality(OtherTypesWith(opportunities[k].puzzle_type,
                                                   opportunities[k].theme))
        /\ \A i, j \in DOMAIN opportunities :
               ( /\ opportunities[i].puzzle_type = opportunities[j].puzzle_type
                 /\ opportunities[i].theme = opportunities[j].theme ) => i = j

\* "bible" is under two types and offered to "sudoku"; "animals" is under
\* three and offered to the others; "word search" has both and gets nothing
C10_Witness ==
    /\ pc = "cross_type"
    /\ \E k \in DOMAIN opportunities :
           opportunities[k] = [puzzle_type |-> "sudoku", theme |-> "bible",
                               other_types_with_theme |-> 2]
    /\ \E k \in DOMAIN opportunities :
           opportunities[k] = [puzzle_type |-> "maze", theme |-> "animals",
                               other_types_with_theme |-> 3]
    /\ ~ \E k \in DOMAIN opportunities : opportunities[k].puzzle_type = "word search"

\* "animals" is tagged under word search, crossword and sudoku and under no
\* other puzzle type
AnimalsUnderThreeTypes ==
    /\ pc = "cross_type"
    /\ \A q \in Range(PUZZLE_TYPES) \cup TaggedTypes :
           CoTagged(q, "animals") <=> q \in {"word search", "crossword", "sudoku"}

TypesReportedMissing(t) ==
    { opportunities[k].puzzle_type : k \in { j \in DOMAIN opportunities :
                                                 opportunities[j].theme = t } }

----------------------------------------------------------------------------
(* Properties of find_gaps *)

Analysed == pc = "analysed"

Smaller(a, b) == IF a < b THEN a ELSE b

\* kept holds the first min(100, n) entries of the list `whole` of n entries
IsTopOf(kept, whole) ==
    /\ Len(kept) = Smaller(100, Len(whole))
    /\ \A k \in DOMAIN kept : kept[k] = whole[k]

\* m has the two vocabularies as labels and the file holds it as a grid
IsGridOf(file, m, row_values, col_values) ==
    /\ m.index = row_values
    /\ m.columns = col_values
    /\ Len(file) = Len(row_values) + 1
    /\ Tail(file[1]) = col_values
    /\ \A i \in DOMAIN row_values :
           /\ file[i + 1][1] = row_values[i]
           /\ \A j \in DOMAIN col_values :
                  file[i + 1][j + 1] = m.at[<<row_values[i], col_values[j]>>]

\* The pairs (p, t) that are cross-type opportunities of the items
OpportunityPairs ==
    { pair \in Range(PUZZLE_TYPES) \X (TaggedThemes \ {"none"}) :
        /\ ~CoTagged(pair[1], pair[2])
        /\ Cardinality(OtherTypesWith(pair[1], pair[2])) >= 2 }

\* kept holds min(100, n) of the n opportunity pairs, each once, in
\* non-increasing order of their count, and no pair left out has a larger
\* count than a pair kept
IsTopOpportunities(kept) ==
    /\ Len(kept) = Smaller(100, Cardinality(OpportunityPairs))
    /\ \A k \in DOMAIN kept :
           /\ <<kept[k].puzzle_type, kept[k].theme>> \in OpportunityPairs
           /\ kept[k].other_types_with_theme
                  = Cardinality(OtherTypesWith(kept[k].puzzle_type, kept[k].theme))
    /\ \A i, j \in DOMAIN kept :
           /\ i < j => kept[i].other_types_with_theme >= kept[j].other_types_with_theme
           /\ ( kept[i].puzzle_type = kept[j].puzzle_type
                /\ kept[i].theme = kept[j].theme ) => i = j
    /\ \A pair \in OpportunityPairs :
           (\E k \in DOMAIN kept : <<kept[k].puzzle_type, kept[k].theme>> = pair)
           \/ \A k \in DOMAIN kept :
                  kept[k].other_types_with_theme
                      >= Cardinality(OtherTypesWith(pair[1], pair[2]))

\* C12: the result of find_gaps holds the three matrices of the pairs
\* (puzzle types x themes, puzzle types x audiences, themes x audiences), for
\* each the first min(100, n) entries of its score-sorted gap list, the first
\* min(100, n) cross-type opportunities and the whole modifier-gap report;
\* gap_analysis.json holds the same entries except the matrices.
C12_ResultHoldsTopEntries ==
    Analysed =>
        /\ DOMAIN results = {"puzzle_type_x_theme_gaps", "puzzle_type_x_audience_gaps",
                             "theme_x_audience_gaps", "modifier_gaps",
                             "cross_type_opportunities", "matrices"}
        /\ IsGridOf(output_dir["matrix_puzzle_type_x_theme.csv"],
                    results.matrices.puzzle_type_x_theme, PUZZLE_TYPES, THEMES)
        /\ IsGridOf(output_dir["matrix_puzzle_type_x_audience.csv"],
                    results.matrices.puzzle_type_x_audience, PUZZLE_TYPES, AUDIENCES)
        /\ IsGridOf(output_dir["matrix_theme_x_audience.csv"],
                    results.matrices.theme_x_audience, THEMES, AUDIENCES)
        /\ results.matrices.puzzle_type_x_theme
               = _build_matrix(categorized, "puzzle_types", "themes", PUZZLE_TYPES, THEMES)
        /\ results.matrices.puzzle_type_x_audience
               = _build_matrix(categorized, "puzzle_types", "audiences", PUZZLE_TYPES, AUDIENCES)
        /\ results.matrices.theme_x_audience
               = _build_matrix(categorized, "themes", "audiences", THEMES, AUDIENCES)
        /\ IsTopOf(results.puzzle_type_x_theme_gaps,
                   _find_gaps(results.matrices.puzzle_type_x_theme, 3, 3))
        /\ IsTopOf(results.puzzle_type_x_audience_gaps,
                   _find_gaps(results.matrices.puzzle_type_x_audience, 3, 3))
        /\ IsTopOf(results.theme_x_audience_gaps,
                   _find_gaps(results.matrices.theme_x_audience, 3, 3))
        /\ IsTopOpportunities(results.cross_type_opportunities)
        /\ ReportsMissing(results.modifier_gaps.puzzle_type_modifier_gaps,
                          "puzzle_types", PUZZLE_TYPES)
        /\ ReportsMissing(results.modifier_gaps.audience_modifier_gaps,
                          "audiences", AUDIENCES)
        /\ DOMAIN output_dir["gap_analysis.json"] = (DOMAIN results) \ {"matrices"}
        /\ \A k \in DOMAIN output_dir["gap_analysis.json"] :
               output_dir["gap_analysis.json"][k] = results[k]

\* Two gap lists and the opportunities lose entries to the cut at 100, the
\* gap list of puzzle types x audiences is shorter and kept whole
C12_Witness ==
    /\ Analysed
    /\ Len(_find_gaps(results.matrices.puzzle_type_x_theme, 3, 3)) > 100
    /\ Len(results.puzzle_type_x_theme_gaps) = 100
    /\ Len(results.theme_x_audience_gaps) \in 1..100
    /\ Len(results.puzzle_type_x_audience_gaps) \in 1..99
    /\ Cardinality(OpportunityPairs) > 100
    /\ Len(results.cross_type_opportunities) = 100

----------------------------------------------------------------------------
(* Properties of repeated calls *)

C17_CellsNeverDecrease ==
    /\ pc \in {"matrix", "gaps", "again", "longer"} =>
           \A rc \in DOMAIN matrix.at : matrix.at[rc] >= 0
    /\ pc = "longer" =>
           /\ categorized[Len(categorized)].frequency >= 1
           /\ DOMAIN matrix.at = DOMAIN previous.matrix.at
           /\ \A rc \in DOMAIN matrix.at : matrix.at[rc] >= previous.matrix.at[rc]

\* The further item raises a cell that held a count, leaves another as it
\* was and fills a cell that was zero
C17_Witness ==
    /\ pc = "longer"
    /\ \E rc \in DOMAIN matrix.at :
           previous.matrix.at[rc] > 0 /\ matrix.at[rc] > previous.matrix.at[rc]
    /\ \E rc \in DOMAIN matrix.at :
           previous.matrix.at[rc] > 0 /\ matrix.at[rc] = previous.matrix.at[rc]
    /\ \E rc \in DOMAIN matrix.at :
           previous.matrix.at[rc] = 0 /\ matrix.at[rc] > 0

\* C14: two runs of the analysis on the same items and vocabularies return
\* the same outputs and write the same files, the order of the cross-type
\* opportunities and the opportunities kept by the cut at 100 included.
C14_TwoRunsAgree ==
    pc = "analysed_again" =>
        /\ results = previous.results
        /\ output_dir = previous.output_dir

\* The pairs (puzzle type, theme) among the opportunities a run returned
KeptPairs(res) ==
    { <<res.cross_type_opportunities[k].puzzle_type, res.cross_type_opportunities[k].theme>> :
        k \in DOMAIN res.cross_type_opportunities }

\* Two runs on the same file whose cut at 100 kept different opportunities,
\* every other entry of the results being the same
C14_Witness ==
    /\ pc = "analysed_again"
    /\ Len(results.cross_type_opportunities) = 100
    /\ Len(previous.results.cross_type_opportunities) = 100
    /\ KeptPairs(results) # KeptPairs(previous.results)
    /\ \A k \in (DOMAIN results) \ {"cross_type_opportunities"} :
           results[k] = previous.results[k]

----------------------------------------------------------------------------
(* Properties of the arguments *)

\* C15: a call of the gap scorer with a negative min_row_total or
\* min_col_total is rejected: it signals an error and returns no list of gaps.
C15_NegativeThresholdRejected ==
    (min_row_total < 0 \/ min_col_total < 0) =>
        /\ pc \in {"start", "error"}
        /\ gaps = <<>>

\* The call with negative thresholds returned gaps, one of them in a column
\* that no row has
C15_Witness ==
    /\ pc = "scored"
    /\ min_row_total < 0 /\ min_col_total < 0
    /\ \E k \in DOMAIN gaps : gaps[k].col_total = 0 /\ gaps[k].row_total = 0

\* C16: a call of _build_matrix with a row or column dimension that is not a
\* key of the items fails: it returns no matrix.
C16_UnknownDimensionRejected ==
    (call.row_field \notin KnownDimensions \/ call.col_field \notin KnownDimensions) =>
        pc \in {"categorize", "error"}

\* The call with the dimension "genres" returned a matrix of zeros for items
\* tagged with values of both vocabularies
C16_Witness ==
    /\ pc = "matrix"
    /\ call.row_field = "genres"
    /\ \E i \in DOMAIN categorized :
           /\ Contains(categorized[i].puzzle_types, "word search")
           /\ Contains(categorized[i].themes, "animals")
    /\ \A rc \in DOMAIN matrix.at : matrix.at[rc] = 0

----------------------------------------------------------------------------
(* Properties of the RateLimiter *)

\* The number of record_failure calls after the last record_success
RECURSIVE FailuresSinceSuccess(_)
FailuresSinceSuccess(calls) ==
    IF calls = <<>> THEN 0
    ELSE LET last == calls[Len(calls)]
             before == SubSeq(calls, 1, Len(calls) - 1)
         IN  IF last = "record_success" THEN 0
             ELSE IF last = "record_failure" THEN 1 + FailuresSinceSuccess(before)
             ELSE FailuresSinceSuccess(before)

\* C20: consecutive_failures is the number of record_failure calls made
\* since the most recent record_success, or since construction; it is never
\* negative.
C20_CountsFailuresSinceSuccess ==
    /\ rate_limiter._consecutive_failures = FailuresSinceSuccess(rate_limiter.calls)
    /\ rate_limiter._consecutive_failures >= 0

\* C20: record_failure raises the counter by exactly 1 and record_success
\* sets it to 0.
C20_StepsOfTheCounter ==
    [][ /\ RecordFailure =>
             rate_limiter'._consecutive_failures = rate_limiter._consecutive_failures + 1
        /\ RecordSuccess => rate_limiter'._consecutive_failures = 0 ]_vars

\* Two failures, a success, then one failure: the counter is 1
C20_Witness ==
    /\ pc = "rate_limiter"
    /\ Len(rate_limiter.calls) >= 4
    /\ SubSeq(rate_limiter.calls, Len(rate_limiter.calls) - 3, Len(rate_limiter.calls))
           = << "record_failure", "record_failure", "record_success", "record_failure" >>
    /\ rate_limiter._consecutive_failures = 1

----------------------------------------------------------------------------
(* Properties of scrape_autocomplete *)

\* The results a run added to the ones it found in the progress file
NewResults == SubSeq(scrape.returned, Len(scrape.found.results) + 1, Len(scrape.returned))

\* The queries of this run whose fetch gave a result: all but the one that
\* made the run abort
Answered ==
    IF scrape.outcome = "aborted"
    THEN SubSeq(requests, 1, Len(requests) - 1)
    ELSE requests

\* C18: in a run that starts from a progress file, no query of its
\* completed_queries is fetched, and the returned results are the saved
\* results followed by one result per newly fetched query, in the order of
\* the fetches, holding what the endpoint answered.
C18_ResumeSkipsCompleted ==
    (scrape.at # "idle" /\ scrape.found.exists) =>
        /\ \A i \in DOMAIN requests : requests[i] \notin Range(scrape.found.completed_queries)
        /\ scrape.at = "returned" =>
              /\ Len(scrape.returned) >= Len(scrape.found.results)
              /\ SubSeq(scrape.returned, 1, Len(scrape.found.results)) = scrape.found.results
              /\ Len(NewResults) = Len(Answered)
              /\ \A i \in DOMAIN NewResults :
                    /\ NewResults[i].query = Answered[i]
                    /\ NewResults[i].suggestions =
                          (IF Answer(endpoint, Answered[i]).ok
                           THEN Answer(endpoint, Answered[i]).suggestions ELSE <<>>)

\* The run of the test: one saved seed, one new seed, max_depth 0, 2 results
C18_Witness ==
    /\ scrape.at = "returned"
    /\ scrape.outcome = "complete"
    /\ scrape.found = TestProgress
    /\ scrape.seed_queries = TestSeeds
    /\ scrape.max_depth = 0
    /\ requests = << "maze book" >>
    /\ Len(scrape.returned) = 2
    /\ scrape.returned[1] = TestProgress.results[1]
    /\ scrape.returned[2].query = "maze book"

\* A call on these arguments that nothing interrupts, from no progress file
FreshStart(seed_queries, max_depth, max_failures) ==
    Started([ scrape |-> NotStarted(seed_queries, max_depth, max_failures),
              rate_limiter |-> NewRateLimiter,
              progress_file |-> NoFile,
              output_file |-> [exists |-> FALSE, results |-> <<>>],
              requests |-> <<>> ], 1)

RECURSIVE RunToEnd(_, _)
RunToEnd(M, ep) ==
    IF M.scrape.at = "returned" THEN M
    ELSE IF M.scrape.queue = <<>> THEN Finished(M, "complete")
    ELSE RunToEnd(Iteration(M, ep, 1), ep)

\* The queries an uninterrupted run completes
UninterruptedCompleted ==
    RunToEnd(FreshStart(scrape.seed_queries, scrape.max_depth, scrape.max_failures),
             endpoint).scrape.completed

\* The first run started without a progress file, and the current run, a
\* later one, ran to the end of its queue
ResumedToTheEnd ==
    /\ runs >= 2
    /\ scrape.at = "returned"
    /\ scrape.outcome = "complete"
    /\ Len(scrape.found.results) > 0 =>
          scrape.found.results[1].timestamp >= 1

\* C19: after an interrupted, aborted or killed run, a run with the same
\* seeds, max_depth and progress file that reaches the end of its queue has
\* completed the set of queries an uninterrupted run completes.
C19_ResumedRunCompletesTheSame ==
    ResumedToTheEnd => scrape.completed = UninterruptedCompleted

\* A run interrupted after its seed was completed, then a run to the end:
\* the 26 branch queries of the seed's suggestion are not completed
C19_Witness ==
    /\ ResumedToTheEnd
    /\ scrape.seed_queries = << "a" >>
    /\ scrape.max_depth >= 1
    /\ endpoint = OneBranch
    /\ scrape.completed = {"a"}
    /\ requests = <<>>
    /\ "ax a" \in UninterruptedCompleted
    /\ Cardinality(UninterruptedCompleted) = 1 + Len(ascii_lowercase)

----------------------------------------------------------------------------
(* Properties of _fetch_suggestions *)

\* The stripped non-empty values of a response, in response order
RECURSIVE StrippedValues(_)
StrippedValues(values) ==
    IF values = <<>> THEN <<>>
    ELSE LET v == strip(Head(values))
         IN  (IF v = "" THEN <<>> ELSE <<v>>) \o StrippedValues(Tail(values))

\* C21: a call of _fetch_suggestions raises nothing for a request, status or
\* parsing exception: it returns the empty list and consecutive_failures is
\* one more than before; on success it returns the stripped non-empty values
\* in response order and consecutive_failures is 0.
C21_FailureIsCountedNotRaised ==
    fetch.query # "" =>
        /\ ~fetch.raised
        /\ ~fetch.response.ok =>
              /\ fetch.suggestions = <<>>
              /\ rate_limiter._consecutive_failures = fetch.before + 1
        /\ fetch.response.ok =>
              /\ fetch.suggestions = StrippedValues(fetch.response.suggestions)
              /\ \A i \in DOMAIN fetch.suggestions :
                    /\ fetch.suggestions[i] # ""
                    /\ SubSeq(fetch.suggestions[i], 1, 1) \notin Whitespace
              /\ rate_limiter._consecutive_failures = 0

\* A parsing exception after an earlier failure: the empty list, 2 failures
C21_Witness ==
    /\ fetch.query = "word search"
    /\ fetch.response.error = "JSONDecodeError"
    /\ fetch.before = 1
    /\ fetch.suggestions = <<>>
    /\ rate_limiter._consecutive_failures = 2

\* The run returned after writing both files with every result it holds
FilesWritten ==
    /\ progress_file.exists
    /\ progress_file.completed_queries = scrape.progress.completed_queries
    /\ progress_file.results = scrape.progress.results
    /\ output_file.exists
    /\ output_file.results = scrape.progress.results
    /\ scrape.returned = scrape.progress.results

\* C22: while the loop runs after a fetch, consecutive_failures is below
\* max_failures; the fetch that reaches max_failures ends the run, which
\* fetches nothing more; a run that ends by abort, by completion or by
\* KeyboardInterrupt has written the progress file and the output file with
\* every result recorded so far.
C22_AbortStopsAndSaves ==
    /\ (scrape.at = "loop" /\ requests # <<>>) =>
          rate_limiter._consecutive_failures < scrape.max_failures
    /\ scrape.outcome = "aborted" =>
          /\ scrape.at = "returned"
          /\ rate_limiter._consecutive_failures >= scrape.max_failures
          /\ Len(scrape.returned) = Len(scrape.found.results) + Len(requests) - 1
    /\ scrape.at = "returned" =>
          /\ scrape.outcome \in {"aborted", "complete", "interrupted"}
          /\ FilesWritten

\* The default max_failures: one answered seed, then ten failed branch
\* queries; the files hold the seed and the nine failures before the last
C22_Witness ==
    /\ scrape.outcome = "aborted"
    /\ scrape.max_failures = DefaultMaxFailures
    /\ rate_limiter._consecutive_failures = DefaultMaxFailures
    /\ Len(requests) = DefaultMaxFailures + 1
    /\ Len(output_file.results) = DefaultMaxFailures
    /\ Len(progress_file.completed_queries) = DefaultMaxFailures
    /\ scrape.queue # <<>>

\* The deepest level a run may fetch at
DeepestLevel == IF scrape.max_depth > 0 THEN scrape.max_depth ELSE 0

\* query at this depth is a seed, or the branch query of a recorded parent
\* one level above that is above max_depth
IsSeedOrBranch(query, depth) ==
    IF depth = 0
    THEN query \in Range(scrape.seed_queries)
    ELSE \E i \in DOMAIN scrape.progress.results :
            LET parent == scrape.progress.results[i]
            IN  /\ parent.depth = depth - 1
                /\ parent.depth < scrape.max_depth
                /\ \E j \in DOMAIN parent.suggestions, k \in DOMAIN ascii_lowercase :
                      query = parent.suggestions[j] \o " " \o ascii_lowercase[k]

\* C23: every query queued or recorded has a depth between 0 and
\* max(max_depth, 0); at depth 0 it is a seed, at a greater depth it is
\* suggestion + " " + letter of a parent recorded one level above, below
\* max_depth; with max_depth <= 0 only seeds are fetched.
C23_DepthIsBounded ==
    scrape.at # "idle" =>
        /\ \A i \in DOMAIN scrape.queue :
              /\ scrape.queue[i][2] \in 0..DeepestLevel
              /\ IsSeedOrBranch(scrape.queue[i][1], scrape.queue[i][2])
        /\ \A i \in DOMAIN scrape.progress.results :
              /\ scrape.progress.results[i].depth \in 0..DeepestLevel
              /\ IsSeedOrBranch(scrape.progress.results[i].query,
                                scrape.progress.results[i].depth)
        /\ scrape.max_depth <= 0 =>
              \A i \in DOMAIN requests : requests[i] \in Range(scrape.seed_queries)

\* A complete run at max_depth 2 recorded the branch query of a branch query
C23_Witness ==
    /\ scrape.at = "returned"
    /\ scrape.outcome = "complete"
    /\ scrape.max_depth = 2
    /\ \E i \in DOMAIN scrape.returned :
          /\ scrape.returned[i].query = "ay a"
          /\ scrape.returned[i].depth = 2

\* The queries of a list of results, in order
QueriesOf(res) == [i \in DOMAIN res |-> res[i].query]

NoRepeats(seq) == \A i, j \in DOMAIN seq : i # j => seq[i] # seq[j]

\* completed_queries without repeats, one result per completed query
Consistent(progress) ==
    /\ NoRepeats(progress.completed_queries)
    /\ Len(progress.results) = Len(progress.completed_queries)
    /\ \A i \in DOMAIN progress.results :
          progress.results[i].query = progress.completed_queries[i]

\* C28: in a run started from a consistent progress file, no query is
\* fetched twice, no query occurs twice in results, and results and
\* completed_queries list the same queries in the same order.
C28_OneResultPerCompletedQuery ==
    (scrape.at # "idle" /\ Consistent(scrape.found)) =>
        /\ NoRepeats(requests)
        /\ NoRepeats(QueriesOf(scrape.progress.results))
        /\ Consistent(scrape.progress)

\* Without a KeyboardInterrupt in this run the three statements hold
C28_HoldsWithoutInterrupt ==
    (scrape.at # "idle" /\ Consistent(scrape.found) /\ scrape.outcome # "interrupted") =>
        /\ NoRepeats(requests)
        /\ NoRepeats(QueriesOf(scrape.progress.results))
        /\ Consistent(scrape.progress)

\* A first run interrupted between results.append and completed.add: the
\* files hold a result whose query is not in completed_queries
C28_Witness ==
    /\ runs = 1
    /\ scrape.at = "returned"
    /\ scrape.outcome = "interrupted"
    /\ ~scrape.found.exists
    /\ Len(progress_file.results) = Len(progress_file.completed_queries) + 1
    /\ progress_file.results[Len(progress_file.results)].query
          \notin Range(progress_file.completed_queries)

\* The run that resumes from those files fetches the query again: results
\* holds it twice
C28_RefetchedOnResume ==
    /\ runs = 2
    /\ scrape.at = "returned"
    /\ ~Consistent(scrape.found)
    /\ ~NoRepeats(QueriesOf(scrape.returned))

\* The query of the last fetch of this run
LastRequest == requests[Len(requests)]

\* C29 (steps): a turn of the loop that fetches a query appends it to
\* results and completed_queries exactly when consecutive_failures is below
\* max_failures after the fetch; a failed fetch below max_failures is
\* recorded with the empty suggestion list.
C29_RecordedUnlessAborting ==
    [][ (Iterate /\ requests' # requests) =>
          LET query == requests'[Len(requests')]
              below == rate_limiter'._consecutive_failures < scrape.max_failures
              recorded ==
                  /\ scrape'.progress.results = Append(scrape.progress.results,
                        scrape'.progress.results[Len(scrape'.progress.results)])
                  /\ scrape'.progress.results[Len(scrape'.progress.results)].query = query
                  /\ scrape'.progress.completed_queries =
                        Append(scrape.progress.completed_queries, query)
                  /\ query \in scrape'.completed
              untouched ==
                  /\ scrape'.progress = scrape.progress
                  /\ scrape'.completed = scrape.completed
          IN  /\ below => recorded
              /\ ~below => untouched /\ scrape'.outcome = "aborted"
              /\ (below /\ ~Answer(endpoint, query).ok) =>
                    scrape'.progress.results[Len(scrape'.progress.results)].suggestions = <<>>
    ]_vars

C30_LoopTerminates ==
    (scrape.at = "loop") ~> (scrape.at = "returned" /\ FilesWritten)

\* A run to the end against an endpoint that has a suggestion for every
\* query: the seed and its 26 branch queries are fetched, no deeper one
C30_Witness ==
    /\ scrape.at = "returned"
    /\ scrape.outcome = "complete"
    /\ endpoint = Echo
    /\ scrape.max_depth = 1
    /\ Len(requests) = 1 + Len(ascii_lowercase)
    /\ scrape.queue = <<>>
    /\ FilesWritten

----------------------------------------------------------------------------
(* Properties of the categorizer *)

\* The terms of a vocabulary that occur in a text, the case of letters apart
Occurring(text, vocabulary) ==
    LET lowered == lower(text)
    IN  { c \in Range(vocabulary) : IsSubstring(lower(c), lowered) }

\* tags lists terms of the vocabulary in the order of the vocabulary
InVocabularyOrder(tags, vocabulary) ==
    \A i, j \in DOMAIN tags :
        i < j => \E a, b \in DOMAIN vocabulary :
                    a < b /\ vocabulary[a] = tags[i] /\ vocabulary[b] = tags[j]

\* The sentinel alone when no term occurs, else every occurring term once,
\* in vocabulary order, without the sentinel
WellTagged(text, tags, vocabulary, sentinel) ==
    LET occurring == Occurring(text, vocabulary)
    IN  /\ tags # <<>>
        /\ IF occurring = {}
           THEN tags = <<sentinel>>
           ELSE /\ Range(tags) = occurring
                /\ Len(tags) = Cardinality(occurring)
                /\ InVocabularyOrder(tags, vocabulary)
                /\ sentinel \notin Range(tags)

\* C24: for every text and each of the five dimensions, categorize_suggestion
\* returns either the one-element sentinel list, when no vocabulary term
\* occurs in the text, or the list of all the terms that occur, in vocabulary
\* order, without repeats and without the sentinel.
C24_TagsOrSentinel ==
    pc = "categorizer" =>
        \A i \in DOMAIN categorized :
            LET e == categorized[i]
            IN  /\ WellTagged(e.suggestion, e.puzzle_types, PUZZLE_TYPES, "unknown")
                /\ WellTagged(e.suggestion, e.audiences, AUDIENCES, "general")
                /\ WellTagged(e.suggestion, e.themes, THEMES, "none")
                /\ WellTagged(e.suggestion, e.modifiers, MODIFIERS, "none")
                /\ WellTagged(e.suggestion, e.age_ranges, AGE_RANGES, "none")

\* A text in capitals with a term inside another word, and a text with no
\* term at all
C24_Witness ==
    /\ pc = "categorizer"
    /\ Len(categorized) = 2
    /\ categorized[1].suggestion = "Easy SUDOKU for Women"
    /\ categorized[1].puzzle_types = << "sudoku" >>
    /\ categorized[1].audiences = << "women", "men" >>
    /\ categorized[1].themes = << "none" >>
    /\ categorized[1].modifiers = << "easy" >>
    /\ categorized[2].suggestion = "some random book"
    /\ categorized[2].puzzle_types = << "unknown" >>
    /\ categorized[2].audiences = << "general" >>
    /\ categorized[2].age_ranges = << "none" >>

----------------------------------------------------------------------------
(* Further properties of _find_gaps and _find_cross_type_opportunities *)

\* The cells that hold 0 in a row and a column that reach the thresholds
EligibleCells ==
    { rc \in Range(matrix.index) \X Range(matrix.columns) :
        /\ matrix.at[rc] = 0
        /\ RowSum(rc[1]) >= min_row_total
        /\ ColSum(rc[2]) >= min_col_total }

\* C25: _find_gaps returns every cell holding 0 whose row total and column
\* total reach the thresholds, each exactly once, and the set of the
\* returned (row, column) pairs is the set of those cells.
C25_EveryEligibleCellOnce ==
    Scored =>
        /\ \A rc \in EligibleCells :
              Cardinality({ k \in DOMAIN gaps :
                              gaps[k].row = rc[1] /\ gaps[k].column = rc[2] }) = 1
        /\ { <<gaps[k].row, gaps[k].column>> : k \in DOMAIN gaps } = EligibleCells
        /\ Len(gaps) = Cardinality(EligibleCells)

\* Several gaps are returned, the last cell of the scan among them, while a
\* zero cell is left out
C25_Witness ==
    /\ Scored
    /\ Len(gaps) >= 2
    /\ <<matrix.index[Len(matrix.index)], matrix.columns[Len(matrix.columns)]>>
          \in EligibleCells
    /\ \E rc \in Range(matrix.index) \X Range(matrix.columns) :
          matrix.at[rc] = 0 /\ rc \notin EligibleCells

\* C27: with min_col_total >= 1, every gap has col_fill_count equal to the
\* number of rows of the whole matrix that are non-zero in its column, at
\* least 1 and at most n - 1 for n rows, so the fill bonus 1 + count / n is
\* strictly between 1 and 2, and col_fill_rate, in hundredths, is in 0..100.
C27_FillCountOverAllRows ==
    (Scored /\ min_col_total >= 1) =>
        \A k \in DOMAIN gaps :
            LET n == Len(matrix.index)
                count == gaps[k].col_fill_count
            IN  /\ count = Cardinality(NonZeroRows(gaps[k].column))
                /\ 1 <= count
                /\ count <= n - 1
                /\ n < n + count
                /\ n + count < 2 * n
                /\ gaps[k].col_fill_rate \in 0..100

\* A gap whose column is filled by a row below min_row_total only, with a
\* cell above 1: the count is 1 where the total of the column is more
C27_Witness ==
    /\ Scored
    /\ min_col_total >= 1
    /\ \E k \in DOMAIN gaps :
          /\ gaps[k].col_fill_count = 1
          /\ gaps[k].col_total > 1
          /\ \A r \in NonZeroRows(gaps[k].column) : RowSum(r) < min_row_total

\* C26: the list returned by _find_cross_type_opportunities is in
\* non-increasing order of other_types_with_theme.
C26_OpportunitiesSortedByCount ==
    pc = "cross_type" =>
        \A i, j \in DOMAIN opportunities :
            i < j => opportunities[i].other_types_with_theme
                        >= opportunities[j].other_types_with_theme

\* An opportunity of count 3 for "maze" stands before one of count 2 for
\* "sudoku", which the loop over the puzzle types met first
C26_Witness ==
    /\ pc = "cross_type"
    /\ \E i, j \in DOMAIN opportunities :
          /\ i < j
          /\ opportunities[i].puzzle_type = "maze"
          /\ opportunities[i].other_types_with_theme = 3
          /\ opportunities[j].puzzle_type = "sudoku"
          /\ opportunities[j].other_types_with_theme = 2

====
